---------------------------- MODULE Spec2Model ----------------------------
(***************************************************************************)
(* A model of the analytical core of the fantasy playoff simulator:        *)
(*   simulator/models.py        Team, Matchup, H2H table, tallies          *)
(*   simulator/tiebreakers.py   get_h2h_record, resolve_tiebreaker         *)
(*   simulator/engine.py        apply_outcome, determine_playoffs,         *)
(*                              simulate_season                            *)
(*   simulator/magic_numbers.py calculate_magic_numbers                    *)
(*   simulator/scenarios.py     generate_clinch_elimination_scenarios,     *)
(*                              brute_force_clinch_elimination             *)
(* and of the task that runs it:                                           *)
(*   api/routes/simulations_routes.py  run_simulation_task                 *)
(*   db/repositories.py                SimulationTaskRepository            *)
(* and of the platform adapters it reads the league from:                  *)
(*   platforms/espn.py (and the others) fetch_head_to_head                 *)
(*   platforms/yahoo.py, platforms/cbs.py  _ensure_valid_token             *)
(*                                                                         *)
(* Specifications.                                                         *)
(*   SpecTB        resolve_tiebreaker on drawn groups, tables and bias     *)
(*   Spec          simulate_season on the snapshots of a small league      *)
(*   SpecSeed      two runs of simulate_season after the same random.seed  *)
(*   SpecProgress  a long run of simulate_season with a progress callback  *)
(*   SpecClinch    apply_outcome, then determine_playoffs(disfavor_id=t)   *)
(*   SpecScenario  the two scenario generators on leagues in mid-season    *)
(*   SpecTask      run_simulation_task from the pending task to its end    *)
(*   SpecH2H       fetch_head_to_head and apply_outcome on one schedule    *)
(*   SpecToken     calls of _ensure_valid_token on one adapter as time     *)
(*                 passes                                                  *)
(*                                                                         *)
(* Conventions.  A Team is a record keyed by its id in the function        *)
(* `teams`; a dict's iteration order is modelled as ascending id order.    *)
(* A float percentage (wins + 0.5 * ties) / total is kept as the exact     *)
(* fraction <<2*wins + ties, 2*total>> and compared by cross               *)
(* multiplication.  A head-to-head table is a function whose domain is the *)
(* set of keys present in the dict.  Optional[int] None is `None`.  A      *)
(* function that draws random values is an operator returning the set of   *)
(* results the draws allow, each with the generator as it is left.         *)
(***************************************************************************)
EXTENDS Integers, Sequences, FiniteSets, TLC

VARIABLES
    teams,             \* the snapshot: team id -> Team
    remaining,         \* the snapshot: sequence of remaining Matchups
    h2h,               \* the snapshot: historical head-to-head table
    playoff_spots,     \* league setting
    num_divisions,     \* league setting
    n_simulations,     \* simulate_season argument
    progress_callback, \* TRUE when a callback was passed to simulate_season
    pc,                \* position of the running operation
    results,           \* simulate_season: team id -> SimulationResult
    sim_idx,           \* simulate_season: loop counter
    sim_teams,         \* per-trial copy of the standings
    shared,            \* TRUE when sim_teams holds the caller's Team objects
    sim_h2h,           \* per-trial simulated head-to-head table
    game_idx,          \* index of the next matchup of the trial
    division_winners,  \* determine_playoffs: division winner ids
    playoff_teams,     \* determine_playoffs: playoff ids (seed order)
    progress_calls,    \* the values passed to the callback, oldest first
    disfavor_id,       \* bias passed to determine_playoffs / resolve_tiebreaker
    favor_id,
    tied_teams,        \* resolve_tiebreaker: the input list (ids)
    ranked,            \* resolve_tiebreaker: the returned list
    reranked,          \* resolve_tiebreaker applied to its own output
    flips,             \* the groups that reached the coin-flip step
    rng,               \* state of the random module's generator
    run_no,            \* seeded runs: which run is executing
    first_results,     \* seeded runs: the tallies of the first run
    request,           \* run_simulation_task: the SimulationRunRequest
    provider,          \* what the platform adapter will answer
    task,              \* the SimulationTask row: status, progress
    current_week,      \* the snapshot: current week of the schedule
    magic_numbers,     \* calculate_magic_numbers: team id -> MagicNumbers
    brute,             \* brute_force_clinch_elimination: its locals
    clinch_scenarios,  \* the clinch strings of the scenario generator
    elimination_scenarios, \* its elimination strings
    team_results       \* the response: team id -> reported probabilities

vars == <<teams, remaining, h2h, playoff_spots, num_divisions, n_simulations,
          progress_callback, pc, results, sim_idx, sim_teams, shared, sim_h2h,
          game_idx, division_winners, playoff_teams, progress_calls,
          disfavor_id, favor_id, tied_teams, ranked, reranked, flips,
          rng, run_no, first_results, request, provider, task,
          current_week, magic_numbers, brute, clinch_scenarios,
          elimination_scenarios, team_results>>

---------------------------------------------------------------------------
(* Bounds of the model.                                                    *)

\* Coin-flip draws take the values 0..MaxCoin (distinct floats in [0, 1)).
MaxCoin == 2
\* playoff_spots ranges over 1..MaxSpots.
MaxSpots == 2
\* n_simulations ranges over 0..MaxTrials.
MaxTrials == 2
\* A snapshot is taken after at most MaxPastWeeks weeks were played ...
MaxPastWeeks == 2
\* ... and holds at most MaxRemWeeks weeks of remaining matchups.
MaxRemWeeks == 1
\* Seeds passed to random.seed range over 1..MaxSeed.
MaxSeed == 2
\* n_simulations of the long run that reports progress: 0..MaxProgressTrials.
MaxProgressTrials == 120

---------------------------------------------------------------------------
(* Generic helpers.                                                        *)

\* Optional[int] None: no team id, index or count has this value.
None == -1

Range(s) == {s[i] : i \in 1..Len(s)}

Min2(a, b) == IF a < b THEN a ELSE b
Max2(a, b) == IF a < b THEN b ELSE a

\* The ids of a set as an ascending sequence (dict order).
RECURSIVE SeqOfSet(_)
SeqOfSet(S) ==
    IF S = {} THEN <<>>
    ELSE LET m == CHOOSE x \in S : \A y \in S : x <= y
         IN <<m>> \o SeqOfSet(S \ {m})

\* Position of x in the sequence s (0 when absent).
IndexOf(s, x) ==
    IF x \in Range(s) THEN CHOOSE i \in 1..Len(s) : s[i] = x ELSE 0

IsPermutation(s, t) ==
    /\ Len(s) = Len(t)
    /\ Range(s) = Range(t)
    /\ Cardinality(Range(s)) = Len(s)

\* Exact fractions <<numerator, denominator>>, denominator > 0.
PctEq(p, q) == p[1] * q[2] = q[1] * p[2]
PctGt(p, q) == p[1] * q[2] > q[1] * p[2]

\* max() over the values key[x], x in S (S non-empty).
MaxPct(key, S) ==
    LET b == CHOOSE x \in S : \A y \in S : ~PctGt(key[y], key[x])
    IN key[b]

\* sorted(seq, key=..., reverse=True): stable, descending.
RECURSIVE SortDesc(_, _)
SortDesc(seq, key) ==
    IF seq = <<>> THEN <<>>
    ELSE LET front == SortDesc(SubSeq(seq, 1, Len(seq) - 1), key)
             x == seq[Len(seq)]
             n == Cardinality({i \in 1..Len(front) : ~PctGt(key[x], key[front[i]])})
         IN SubSeq(front, 1, n) \o <<x>> \o SubSeq(front, n + 1, Len(front))

\* list.sort(key=...): stable, ascending, integer keys.
RECURSIVE SortAsc(_, _)
SortAsc(seq, key) ==
    IF seq = <<>> THEN <<>>
    ELSE LET front == SortAsc(SubSeq(seq, 1, Len(seq) - 1), key)
             x == seq[Len(seq)]
             n == Cardinality({i \in 1..Len(front) : key[front[i]] <= key[x]})
         IN SubSeq(front, 1, n) \o <<x>> \o SubSeq(front, n + 1, Len(front))

---------------------------------------------------------------------------
(* models.py                                                               *)

Team(id, div, w, l, t, dw, dl, dt) ==
    [id |-> id, division_id |-> div, wins |-> w, losses |-> l, ties |-> t,
     division_wins |-> dw, division_losses |-> dl, division_ties |-> dt]

Matchup(home, away, week, isdiv) ==
    [home_team_id |-> home, away_team_id |-> away, week |-> week,
     is_division_game |-> isdiv]

win_pct(t) ==
    LET total == t.wins + t.losses + t.ties
    IN IF total = 0 THEN <<0, 1>> ELSE <<2 * t.wins + t.ties, 2 * total>>

division_win_pct(t) ==
    LET total == t.division_wins + t.division_losses + t.division_ties
    IN IF total = 0 THEN <<0, 1>>
       ELSE <<2 * t.division_wins + t.division_ties, 2 * total>>

SimulationResult(id) ==
    [team_id |-> id, division_wins |-> 0, playoff_appearances |-> 0,
     first_seed |-> 0, last_place |-> 0]

---------------------------------------------------------------------------
(* tiebreakers.py                                                          *)

H2HKey(a, b) == <<Min2(a, b), Max2(a, b)>>

\* dict.get(key, (0, 0, 0))
H2HGet(table, key) == IF key \in DOMAIN table THEN table[key] ELSE <<0, 0, 0>>

\* A mutant: the stored record returned as it is for either order.
GetH2HRecordUnswapped(table, team1_id, team2_id) ==
    H2HGet(table, H2HKey(team1_id, team2_id))

\* Lines 17-25: the record from team1's side.
get_h2h_record(table, team1_id, team2_id) ==
    LET record == H2HGet(table, H2HKey(team1_id, team2_id))
    IN IF team1_id < team2_id THEN record
       ELSE <<record[2], record[1], record[3]>>

\* Component-wise sum of the historical and the simulated table.
CombinedH2H(hist, sim) ==
    [key \in (DOMAIN hist) \cup (DOMAIN sim) |->
        LET a == H2HGet(hist, key)
            b == H2HGet(sim, key)
        IN <<a[1] + b[1], a[2] + b[2], a[3] + b[3]>>]

\* _compute_h2h_pcts: valid is FALSE where the code returns None.
ComputeH2HPcts(group, combined) ==
    LET ids == Range(group)
        pair_totals ==
            {LET r == get_h2h_record(combined, group[i], group[j])
             IN r[1] + r[2] + r[3] :
                <<i, j>> \in {p \in (1..Len(group)) \X (1..Len(group)) : p[1] < p[2]}}
        Sum3(t, k) ==
            LET others == SeqOfSet(ids \ {t})
                F[n \in 0..Len(others)] ==
                    IF n = 0 THEN 0
                    ELSE F[n - 1] + get_h2h_record(combined, t, others[n])[k]
            IN F[Len(others)]
    IN [valid |-> Cardinality(pair_totals) <= 1,
        pcts  |-> [t \in ids |->
                      LET w == Sum3(t, 1)
                          l == Sum3(t, 2)
                          d == Sum3(t, 3)
                      IN IF w + l + d > 0 THEN <<2 * w + d, 2 * (w + l + d)>>
                         ELSE <<1, 2>>]]

\* The sort key 1.0 of the disfavoured team, in units of one coin value:
\* a draw is random.random() * 0.0001, i.e. below 1.0 / 10000.
BiasKey == 10000 * (MaxCoin + 1)

\* A mutant: the two biased keys exchanged.
CoinFlipKeySwapped(id, dis, fav, keys) ==
    IF id = dis THEN 0 - BiasKey
    ELSE IF id = fav THEN BiasKey
    ELSE keys[id]

\* A mutant: the draw scaled up instead of down, so it can pass 1.0.
CoinFlipKeyUnscaled(id, dis, fav, keys) ==
    IF id = dis THEN BiasKey
    ELSE IF id = fav THEN 0 - BiasKey
    ELSE keys[id] * BiasKey

\* _coin_flip_key; keys[id] is the value drawn for an unbiased team.
CoinFlipKey(id, dis, fav, keys) ==
    IF id = dis THEN BiasKey
    ELSE IF id = fav THEN 0 - BiasKey
    ELSE keys[id]

\* A mutant: the seat-one filter of line 124 copied to the sub-group split.
RestOfFirstOnly(group, best) ==
    SelectSeq(group, LAMBDA t : t # best[1])

\* [t for t in remaining if t.id not in {bt.id for bt in best_teams}]
RestOf(group, best) ==
    SelectSeq(group, LAMBDA t : t \notin Range(best))

\* Step 1b: the team has strictly more losses than wins against every other.
LostToAll(t, ids, combined) ==
    \A o \in ids \ {t} :
        LET r == get_h2h_record(combined, t, o) IN ~(r[1] >= r[2])

RECURSIVE Resolve(_, _, _, _)
RECURSIVE SeatLoop(_, _, _, _, _)

\* Lines 116-199: what one pass of the loop does with the H2H percentages
\* hp, the teams best by H2H, the teams that lost to all others and the
\* teams best by division record.
SeatDecide(group, seated, tm, hist, sim, hp, best_teams, lost, best_div_teams) ==
    LET Split(top, rest) ==
            seated \o Resolve(top, tm, hist, sim) \o Resolve(rest, tm, hist, sim)
        SeatOne(t) ==
            SeatLoop(SelectSeq(group, LAMBDA x : x # t), Append(seated, <<t>>),
                     tm, hist, sim)
        winners == SelectSeq(group, LAMBDA t : t \notin Range(lost))
    IN IF hp.valid /\ Len(best_teams) = 1 THEN SeatOne(best_teams[1])
       ELSE IF hp.valid /\ Len(best_teams) < Len(group)
            THEN Split(best_teams, RestOf(group, best_teams))
       ELSE IF Len(lost) > 0 /\ Len(lost) < Len(group)
            THEN Split(winners, lost)
       ELSE IF Len(best_div_teams) = 1 THEN SeatOne(best_div_teams[1])
       ELSE IF Len(best_div_teams) < Len(group)
            THEN Split(best_div_teams, RestOf(group, best_div_teams))
       ELSE Append(seated, group)

\* Lines 113-119, 144-156, 174-176: best_teams, teams_lost_to_all and
\* best_div_teams of one pass, from the combined table.
SeatRank(group, seated, tm, hist, sim, combined, hp, div_pcts) ==
    SeatDecide(group, seated, tm, hist, sim, hp,
               SelectSeq(group, LAMBDA t : PctEq(hp.pcts[t], MaxPct(hp.pcts, Range(group)))),
               SelectSeq(group, LAMBDA t : LostToAll(t, Range(group), combined)),
               SelectSeq(group, LAMBDA t : PctEq(div_pcts[t], MaxPct(div_pcts, Range(group)))))

\* The body of `while len(remaining) > 1` with what follows the loop, up to
\* the random draws.  Returns the ranking as a sequence of blocks: a block of
\* one team is a seat decided by the records, a longer block is a group that
\* reached the coin flip (line 195), in the order the group had there.
SeatLoop(group, seated, tm, hist, sim) ==
    IF Len(group) <= 1
    THEN IF group = <<>> THEN seated ELSE Append(seated, group)
    ELSE SeatRank(group, seated, tm, hist, sim, CombinedH2H(hist, sim),
                  ComputeH2HPcts(group, CombinedH2H(hist, sim)),
                  [t \in Range(group) |-> division_win_pct(tm[t])])

\* resolve_tiebreaker up to the random draws (lines 52-53 and the loop).
Resolve(tied, tm, hist, sim) ==
    IF Len(tied) <= 1
    THEN IF tied = <<>> THEN <<>> ELSE <<tied>>
    ELSE SeatLoop(tied, <<>>, tm, hist, sim)

\* The groups that reached the coin flip.
FlipGroups(blocks) ==
    {Range(blocks[i]) : i \in {j \in 1..Len(blocks) : Len(blocks[j]) > 1}}

\* remaining.sort(key=_coin_flip_key); ranked.extend(remaining), per group.
RECURSIVE CoinFlip(_, _, _, _)
CoinFlip(blocks, dis, fav, keys) ==
    IF blocks = <<>> THEN <<>>
    ELSE LET b == Head(blocks)
             coin == [t \in Range(b) |-> CoinFlipKey(t, dis, fav, keys)]
         IN (IF Len(b) <= 1 THEN b ELSE SortAsc(b, coin))
                \o CoinFlip(Tail(blocks), dis, fav, keys)

CoinValues == 0..MaxCoin

---------------------------------------------------------------------------
(* The random module.  Its generator is a deterministic function of its    *)
(* state; `rng.seeded` is FALSE while nothing fixes the state (the module  *)
(* seeds itself from the operating system), and then any value can come.   *)

Unseeded == [seeded |-> FALSE, seed |-> 0, state |-> 0]

\* random.seed(seed)
Seeded(seed) == [seeded |-> TRUE, seed |-> seed, state |-> seed]

\* One step of the generator (a multiplicative congruential stand-in).
Advance(r) == [r EXCEPT !.state = (r.state * 3) % 31]

RECURSIVE AdvanceN(_, _)
AdvanceN(r, n) == IF n = 0 THEN r ELSE AdvanceN(Advance(r), n - 1)

\* A mutant: the winner is picked by a source the seed does not reach.
ChoiceIgnoringSeed(r, a, b) == {<<a, r>>, <<b, r>>}

\* random.choice([a, b]): the set of <<element picked, generator afterwards>>.
Choice(r, a, b) ==
    IF r.seeded THEN {<<IF r.state % 2 = 0 THEN a ELSE b, Advance(r)>>}
    ELSE {<<a, r>>, <<b, r>>}

\* random.random(): the set of <<value drawn, generator afterwards>>.
Random(r) ==
    IF r.seeded THEN {<<r.state % (MaxCoin + 1), Advance(r)>>}
    ELSE {<<v, r>> : v \in CoinValues}

\* The key functions random.random() can produce for the teams of `drawers`,
\* drawn one after the other in list order, with the generator afterwards.
RECURSIVE DrawKeys(_, _)
DrawKeys(drawers, r) ==
    IF drawers = <<>> THEN {[keys |-> <<>>, rng |-> r]}
    ELSE UNION {{[keys |-> (Head(drawers) :> d[1]) @@ k.keys, rng |-> k.rng] :
                    k \in DrawKeys(Tail(drawers), d[2])}
                : d \in Random(r)}

\* The teams that draw, in the order _coin_flip_key is called for them.
RECURSIVE DrawOrder(_, _, _)
DrawOrder(blocks, dis, fav) ==
    IF blocks = <<>> THEN <<>>
    ELSE (IF Len(Head(blocks)) <= 1 THEN <<>>
          ELSE SelectSeq(Head(blocks), LAMBDA t : t \notin {dis, fav}))
             \o DrawOrder(Tail(blocks), dis, fav)

\* Line 197: the groups that reached the coin flip are sorted by the keys
\* drawn for them.
FlipBlocks(blocks, dis, fav, r) ==
    {[order |-> CoinFlip(blocks, dis, fav, k.keys), rng |-> k.rng] :
        k \in DrawKeys(DrawOrder(blocks, dis, fav), r)}

\* resolve_tiebreaker: the set of [order, rng] it can return.
resolve_tiebreaker(tied, tm, hist, sim, dis, fav, r) ==
    FlipBlocks(Resolve(tied, tm, hist, sim), dis, fav, r)

---------------------------------------------------------------------------
(* resolve_tiebreaker as a pure function: the inputs are drawn in TBInit,  *)
(* TBRank applies it, TBRerank applies it to its own output.               *)

\* The ids of the teams a tied group is drawn from.
TieIds == {1, 2, 3}

Pairs(S) == {p \in S \X S : p[1] < p[2]}

Absent == <<>>
\* One pair's entry of the historical table: no key, or one game played.
HistOptions == {Absent, <<1, 0, 0>>, <<0, 1, 0>>, <<0, 0, 1>>}
\* One pair's entry of the simulated table: no key, or one game simulated.
SimOptions == {Absent, <<1, 0, 0>>}
\* A team's intra-division record (wins, losses, ties).
DivRecordOptions == {<<0, 0, 0>>, <<1, 0, 0>>}

TableOf(opt) == [k \in {p \in DOMAIN opt : opt[p] # Absent} |-> opt[k]]

\* The simulated tables drawn: at most one simulated game in all.
SimTables(S) ==
    {so \in [Pairs(S) -> SimOptions] :
        Cardinality({p \in Pairs(S) : so[p] # Absent}) <= 1}

\* The bias ids <<disfavor_id, favor_id>> a caller passes: engine.py passes
\* none, scenarios.py one of the two, never both.
BiasPairs(S) ==
    {b \in (S \cup {None}) \X (S \cup {None}) : b[1] = None \/ b[2] = None}

\* The variables of run_simulation_task when no task is running.
TaskIdle ==
    /\ request = <<>>
    /\ provider = <<>>
    /\ task = [status |-> "none", progress |-> 0]
    /\ current_week = 0
    /\ magic_numbers = <<>>
    /\ brute = <<>>
    /\ clinch_scenarios = <<>>
    /\ elimination_scenarios = <<>>
    /\ team_results = <<>>

\* What the engine and the tiebreaker never write.
Task_Unchanged ==
    UNCHANGED <<request, provider, current_week, magic_numbers, brute,
                clinch_scenarios, elimination_scenarios, team_results>>

EngineIdle ==
    /\ TaskIdle
    /\ shared = FALSE
    /\ remaining = <<>>
    /\ playoff_spots = 0
    /\ num_divisions = 0
    /\ n_simulations = 0
    /\ progress_callback = FALSE
    /\ results = <<>>
    /\ sim_idx = 0
    /\ game_idx = 0
    /\ division_winners = <<>>
    /\ playoff_teams = <<>>
    /\ progress_calls = <<>>
    /\ rng = Unseeded
    /\ run_no = 0
    /\ first_results = <<>>

TBInit ==
    /\ pc = "tb_input"
    /\ \E S \in {{}, {1}, {1, 2}, TieIds} :
         \E divs \in [S -> DivRecordOptions],
            ho \in [Pairs(S) -> HistOptions],
            so \in SimTables(S),
            bias \in BiasPairs(S) :
             /\ tied_teams = SeqOfSet(S)
             /\ teams = [i \in S |->
                           Team(i, 1, 0, 0, 0, divs[i][1], divs[i][2], divs[i][3])]
             /\ h2h = TableOf(ho)
             /\ sim_h2h = TableOf(so)
             /\ disfavor_id = bias[1]
             /\ favor_id = bias[2]
    /\ sim_teams = <<>>
    /\ ranked = <<>>
    /\ reranked = <<>>
    /\ flips = {}
    /\ EngineIdle

TBFrame ==
    /\ Task_Unchanged
    /\ UNCHANGED <<task, shared>>
    /\ UNCHANGED <<teams, remaining, h2h, playoff_spots, num_divisions,
                n_simulations, progress_callback, results, sim_idx, sim_teams,
                sim_h2h, game_idx, division_winners, playoff_teams,
                progress_calls, disfavor_id, favor_id, tied_teams,
                rng, run_no, first_results>>

TBRank ==
    /\ pc = "tb_input"
    /\ flips' = FlipGroups(Resolve(tied_teams, teams, h2h, sim_h2h))
    /\ \E o \in resolve_tiebreaker(tied_teams, teams, h2h, sim_h2h,
                                   disfavor_id, favor_id, rng) :
         ranked' = o.order
    /\ pc' = "tb_ranked"
    /\ UNCHANGED reranked
    /\ TBFrame

TBRerank ==
    /\ pc = "tb_ranked"
    /\ \E o \in resolve_tiebreaker(ranked, teams, h2h, sim_h2h,
                                   disfavor_id, favor_id, rng) :
         reranked' = o.order
    /\ pc' = "tb_reranked"
    /\ UNCHANGED <<ranked, flips>>
    /\ TBFrame

TBNext == TBRank \/ TBRerank

SpecTB == TBInit /\ [][TBNext]_vars

---------------------------------------------------------------------------
(* Claims about resolve_tiebreaker (checked under SpecTB).                 *)

\* C6: resolve_tiebreaker returns a permutation of its input: exactly the
\* input teams, each exactly once, for every table and every bias.
C6_Permutation ==
    /\ (pc \in {"tb_ranked", "tb_reranked"} => IsPermutation(ranked, tied_teams))
    /\ (pc = "tb_reranked" => IsPermutation(reranked, tied_teams))

\* A three-team call that split the group and coin-flipped a sub-group.
C6_Witness ==
    /\ pc = "tb_ranked"
    /\ Len(tied_teams) = 3
    /\ \E g \in flips : Cardinality(g) = 2
    /\ ranked # tied_teams

\* C7: within every group that reaches the coin flip, the disfavoured team
\* is ranked after every other member and the favoured team before every
\* other member, whatever values are drawn.
C7_BiasDecides ==
    pc \in {"tb_ranked", "tb_reranked"} =>
        \A g \in flips :
            /\ disfavor_id \in g =>
                 \A o \in g \ {disfavor_id} :
                     IndexOf(ranked, o) < IndexOf(ranked, disfavor_id)
            /\ favor_id \in g =>
                 \A o \in g \ {favor_id} :
                     IndexOf(ranked, favor_id) < IndexOf(ranked, o)

\* A coin flip among three teams that moved the disfavoured team, listed
\* first, to the end.
C7_Witness ==
    /\ pc = "tb_ranked"
    /\ \E g \in flips : Cardinality(g) = 3 /\ disfavor_id \in g
    /\ tied_teams[1] = disfavor_id
    /\ ranked[3] = disfavor_id

\* C8 as stated: applying resolve_tiebreaker to its own output (same tables,
\* same bias) returns the same order.
C8_Idempotent ==
    pc = "tb_reranked" => reranked = ranked

\* Every group that reaches the coin flip holds at most one unbiased team.
AtMostOneDrawer ==
    \A g \in flips : Cardinality(g \ {disfavor_id, favor_id}) <= 1

\* C8 amended: resolve_tiebreaker is idempotent whenever no coin-flip group
\* holds two or more teams that are neither favor_id nor disfavor_id.
C8_IdempotentWithoutFreeFlips ==
    (pc = "tb_reranked" /\ AtMostOneDrawer) => reranked = ranked

\* A re-ranked three-team group whose coin flip the bias decided.
C8_Witness ==
    /\ pc = "tb_reranked"
    /\ AtMostOneDrawer
    /\ Len(tied_teams) = 3
    /\ flips # {}
    /\ ranked # tied_teams

---------------------------------------------------------------------------
(* engine.py: determine_playoffs.  Each operator returns the set of results *)
(* the random draws allow, with the generator as it is left.                *)

\* teams.values(): the ids in dict order.
TeamsSeq(tm) == SeqOfSet(DOMAIN tm)

WinPcts(tm) == [i \in DOMAIN tm |-> win_pct(tm[i])]

\* The teams of seq whose win_pct equals pct, in the order of seq.
TiedAt(seq, tm, pct) == SelectSeq(seq, LAMBDA i : PctEq(win_pct(tm[i]), pct))

\* sorted(divisions.items()): the division ids that occur, ascending.
DivisionIds(tm) == SeqOfSet({tm[i].division_id : i \in DOMAIN tm})

\* The body of the loop over the divisions, for one division.
DivisionWinner(div_id, tm, hist, sim, dis, fav, r) ==
    LET div_teams == SelectSeq(TeamsSeq(tm), LAMBDA i : tm[i].division_id = div_id)
        sorted_div == SortDesc(div_teams, WinPcts(tm))
        best_pct == win_pct(tm[sorted_div[1]])
        tied_for_first == TiedAt(sorted_div, tm, best_pct)
    IN IF Len(tied_for_first) > 1
       THEN {[winner |-> o.order[1], rng |-> o.rng] :
                o \in resolve_tiebreaker(tied_for_first, tm, hist, sim, dis, fav, r)}
       ELSE {[winner |-> tied_for_first[1], rng |-> r]}

RECURSIVE DivisionWinners(_, _, _, _, _, _, _)
DivisionWinners(div_ids, tm, hist, sim, dis, fav, r) ==
    IF div_ids = <<>> THEN {[winners |-> <<>>, rng |-> r]}
    ELSE UNION {{[winners |-> <<w.winner>> \o rest.winners, rng |-> rest.rng] :
                    rest \in DivisionWinners(Tail(div_ids), tm, hist, sim,
                                             dis, fav, w.rng)}
                : w \in DivisionWinner(Head(div_ids), tm, hist, sim, dis, fav, r)}

\* spots_needed = playoff_spots - len(division_winners)
SpotsNeeded(spots, winners) == spots - Len(winners)

\* The wild-card loop from position i (1-based) of remaining_sorted.
RECURSIVE WildCardLoop(_, _, _, _, _, _, _, _, _, _)
WildCardLoop(remaining_sorted, i, wild_card, spots_needed, tm, hist, sim, dis, fav, r) ==
    IF ~(Len(wild_card) < spots_needed /\ i <= Len(remaining_sorted))
    THEN {[wild_card |-> wild_card, rng |-> r]}
    ELSE
      LET current_pct == win_pct(tm[remaining_sorted[i]])
          tied_group == TiedAt(SubSeq(remaining_sorted, i, Len(remaining_sorted)),
                               tm, current_pct)
          resolved == IF Len(tied_group) > 1
                      THEN resolve_tiebreaker(tied_group, tm, hist, sim, dis, fav, r)
                      ELSE {[order |-> tied_group, rng |-> r]}
          Taken(group) ==
              SubSeq(group, 1, Min2(Len(group), spots_needed - Len(wild_card)))
      IN UNION {WildCardLoop(remaining_sorted, i + Len(tied_group),
                             wild_card \o Taken(o.order), spots_needed,
                             tm, hist, sim, dis, fav, o.rng)
                : o \in resolved}

WildCard(winners, tm, hist, sim, spots, dis, fav, r) ==
    LET remaining_teams == SelectSeq(TeamsSeq(tm), LAMBDA i : i \notin Range(winners))
        remaining_sorted == SortDesc(remaining_teams, WinPcts(tm))
    IN WildCardLoop(remaining_sorted, 1, <<>>, SpotsNeeded(spots, winners),
                    tm, hist, sim, dis, fav, r)

\* Lines 134-156: the seeding of the playoff teams.
Seeding(all_playoff_ids, tm, hist, sim, dis, fav, r) ==
    LET playoff_teams_sorted == SortDesc(all_playoff_ids, WinPcts(tm))
        best_pct == win_pct(tm[playoff_teams_sorted[1]])
        tied_for_first == TiedAt(playoff_teams_sorted, tm, best_pct)
        other_ids == SelectSeq(playoff_teams_sorted,
                               LAMBDA i : ~PctEq(win_pct(tm[i]), best_pct))
    IN IF Len(playoff_teams_sorted) >= 2 /\ Len(tied_for_first) > 1
       THEN {[order |-> o.order \o other_ids, rng |-> o.rng] :
                o \in resolve_tiebreaker(tied_for_first, tm, hist, sim, dis, fav, r)}
       ELSE {[order |-> playoff_teams_sorted, rng |-> r]}

determine_playoffs(tm, hist, sim, spots, dis, fav, r) ==
    UNION {UNION {{[playoff_teams |-> s.order, division_winners |-> w.winners,
                    rng |-> s.rng] :
                      s \in Seeding(w.winners \o c.wild_card, tm, hist, sim,
                                    dis, fav, c.rng)}
                  : c \in WildCard(w.winners, tm, hist, sim, spots, dis, fav, w.rng)}
           : w \in DivisionWinners(DivisionIds(tm), tm, hist, sim, dis, fav, r)}

---------------------------------------------------------------------------
(* engine.py: one simulated game, the tallies of one trial.                *)

\* A mutant: the loser of a non-division game is given no loss.
RecordGameWinnerOnly(tm, m, winner_id) ==
    [i \in DOMAIN tm |->
        IF i = winner_id
        THEN [tm[i] EXCEPT !.wins = @ + 1,
                           !.division_wins = IF m.is_division_game THEN @ + 1 ELSE @]
        ELSE IF i \in {m.home_team_id, m.away_team_id} /\ m.is_division_game
        THEN [tm[i] EXCEPT !.losses = @ + 1, !.division_losses = @ + 1]
        ELSE tm[i]]

\* Lines 202-212 (and 38-46): the records after winner_id wins matchup m.
RecordGame(tm, m, winner_id) ==
    LET loser_id == IF winner_id = m.home_team_id THEN m.away_team_id
                    ELSE m.home_team_id
        AfterWin(t) ==
            [t EXCEPT !.wins = @ + 1,
                      !.division_wins = IF m.is_division_game THEN @ + 1 ELSE @]
        AfterLoss(t) ==
            [t EXCEPT !.losses = @ + 1,
                      !.division_losses = IF m.is_division_game THEN @ + 1 ELSE @]
    IN [i \in DOMAIN tm |->
           IF i = winner_id THEN AfterWin(tm[i])
           ELSE IF i = loser_id THEN AfterLoss(tm[i])
           ELSE tm[i]]

\* A mutant: the first component counts the wins of the home team.
TrackH2HByHome(sim, m, winner_id) ==
    LET key == H2HKey(m.home_team_id, m.away_team_id)
        old == H2HGet(sim, key)
        new == IF winner_id = m.home_team_id THEN <<old[1] + 1, old[2], old[3]>>
               ELSE <<old[1], old[2] + 1, old[3]>>
    IN [k \in (DOMAIN sim) \cup {key} |-> IF k = key THEN new ELSE sim[k]]

\* Lines 215-219 (and 48-52): the simulated table after the same game.
TrackH2H(sim, m, winner_id) ==
    LET loser_id == IF winner_id = m.home_team_id THEN m.away_team_id
                    ELSE m.home_team_id
        key == H2HKey(winner_id, loser_id)
        old == H2HGet(sim, key)
        new == IF winner_id < loser_id THEN <<old[1] + 1, old[2], old[3]>>
               ELSE <<old[1], old[2] + 1, old[3]>>
    IN [k \in (DOMAIN sim) \cup {key} |-> IF k = key THEN new ELSE sim[k]]

\* apply_outcome: the matchups resolved in list order by the given winners.
RECURSIVE apply_outcome(_, _, _, _)
apply_outcome(tm, sim, matchups, outcomes) ==
    IF matchups = <<>> THEN [sim_teams |-> tm, sim_h2h |-> sim]
    ELSE apply_outcome(RecordGame(tm, Head(matchups), Head(outcomes)),
                       TrackH2H(sim, Head(matchups), Head(outcomes)),
                       Tail(matchups), Tail(outcomes))

\* How often id occurs in the list ids.
Occurrences(ids, id) == Cardinality({k \in 1..Len(ids) : ids[k] = id})

\* A mutant: every team tied for last is credited.
LastPlaceAllTied(tied_for_last) == tied_for_last

\* Lines 246-252: the team credited, as a list, given the resolved group.
LastPlace(tied_for_last) == <<tied_for_last[Len(tied_for_last)]>>

\* Lines 238-239: the team credited with the #1 seed, as a list.
FirstSeed(playoffs) == IF playoffs # <<>> THEN <<playoffs[1]>> ELSE <<>>

\* Lines 242-252: the sets of [credited, rng] the last-place step can give.
LastPlaceStep(tm, hist, sim, r) ==
    LET all_teams == TeamsSeq(tm)
        worst == CHOOSE i \in DOMAIN tm :
                     \A j \in DOMAIN tm : ~PctGt(win_pct(tm[i]), win_pct(tm[j]))
        tied_for_last == TiedAt(all_teams, tm, win_pct(tm[worst]))
    IN IF Len(tied_for_last) > 1
       THEN {[credited |-> LastPlace(o.order), rng |-> o.rng] :
                o \in resolve_tiebreaker(tied_for_last, tm, hist, sim, None, None, r)}
       ELSE {[credited |-> <<tied_for_last[1]>>, rng |-> r]}

\* A mutant: the tallies hold the last trial only.
TallyLastTrial(res, winners, playoffs, credited_last) ==
    [i \in DOMAIN res |->
        [res[i] EXCEPT
            !.division_wins = Occurrences(winners, i),
            !.playoff_appearances = Occurrences(playoffs, i),
            !.first_seed = Occurrences(FirstSeed(playoffs), i),
            !.last_place = Occurrences(credited_last, i)]]

\* Lines 229-254: the tallies after one trial.
Tally(res, winners, playoffs, credited_last) ==
    [i \in DOMAIN res |->
        [res[i] EXCEPT
            !.division_wins = @ + Occurrences(winners, i),
            !.playoff_appearances = @ + Occurrences(playoffs, i),
            !.first_seed = @ + Occurrences(FirstSeed(playoffs), i),
            !.last_place = @ + Occurrences(credited_last, i)]]

\* A mutant: the share of the trials still to run is reported.
ProgressValueRemaining(idx, n) == <<(n - idx) * 100, n>>

\* The value passed to the callback at the head of trial idx, as the exact
\* fraction of sim_idx / n_simulations * 100.
ProgressValue(idx, n) == <<idx * 100, n>>

---------------------------------------------------------------------------
(* The snapshots: what an adapter returns for a league of up to four teams *)
(* part of the way through a single round robin.                           *)

\* The schedule: per week the <<home, away>> pairs.
Schedule ==
    << << <<1, 2>>, <<3, 4>> >>,
       << <<1, 3>>, <<2, 4>> >>,
       << <<1, 4>>, <<2, 3>> >> >>

LeagueSizes == 1..4

\* division_id per team: no divisions (0), one division, two divisions.
Layouts(n) ==
    {[i \in 1..n |-> 0], [i \in 1..n |-> 1], [i \in 1..n |-> IF i <= 2 THEN 1 ELSE 2]}

\* The matchups of week w in a league of n teams.
WeekGames(w, n, layout) ==
    LET pairs == SelectSeq(Schedule[w], LAMBDA g : g[1] <= n /\ g[2] <= n)
    IN [k \in 1..Len(pairs) |->
           Matchup(pairs[k][1], pairs[k][2], w,
                   layout[pairs[k][1]] = layout[pairs[k][2]]
                       /\ layout[pairs[k][1]] # 0)]

\* The matchups of weeks from..to, in schedule order.
RECURSIVE GamesOfWeeks(_, _, _, _)
GamesOfWeeks(from, to, n, layout) ==
    IF from > to THEN <<>>
    ELSE WeekGames(from, n, layout) \o GamesOfWeeks(from + 1, to, n, layout)

\* The winners of the played matchups, given which were won at home.
WinnersOf(played, home_won) ==
    [k \in 1..Len(played) |->
        IF home_won[k] THEN played[k].home_team_id ELSE played[k].away_team_id]

\* The snapshot after `past` weeks with the given results and `rem` weeks
\* of matchups still to play.
Snapshot(n, layout, past, rem, home_won) ==
    LET played == GamesOfWeeks(1, past, n, layout)
        fresh == [i \in 1..n |-> Team(i, layout[i], 0, 0, 0, 0, 0, 0)]
        now == apply_outcome(fresh, <<>>, played, WinnersOf(played, home_won))
    IN [teams |-> now.sim_teams,
        h2h |-> now.sim_h2h,
        remaining |-> GamesOfWeeks(past + 1, past + rem, n, layout),
        num_divisions |-> Cardinality({layout[i] : i \in 1..n} \ {0})]

Snapshots ==
    UNION {UNION {UNION {UNION {
        {Snapshot(n, layout, past, rem, home_won) :
            home_won \in [1..Len(GamesOfWeeks(1, past, n, layout)) -> BOOLEAN]}
        : rem \in 0..Min2(MaxRemWeeks, Len(Schedule) - past)}
        : past \in 0..Min2(MaxPastWeeks, Len(Schedule))}
        : layout \in Layouts(n)}
        : n \in LeagueSizes}

\* The variables resolve_tiebreaker's own checks use, at rest.
TiebreakIdle ==
    /\ tied_teams = <<>>
    /\ ranked = <<>>
    /\ reranked = <<>>
    /\ flips = {}

\* The state in which snapshot s is loaded and the operation at `at` starts.
Loaded(s, spots, n, callback, r, at) ==
    /\ teams = s.teams
    /\ remaining = s.remaining
    /\ h2h = s.h2h
    /\ num_divisions = s.num_divisions
    /\ playoff_spots = spots
    /\ n_simulations = n
    /\ progress_callback = callback
    /\ rng = r
    /\ pc = at
    /\ results = <<>>
    /\ sim_idx = 0
    /\ sim_teams = <<>>
    /\ shared = FALSE
    /\ sim_h2h = <<>>
    /\ game_idx = 0
    /\ division_winners = <<>>
    /\ playoff_teams = <<>>
    /\ progress_calls = <<>>
    /\ disfavor_id = None
    /\ favor_id = None
    /\ run_no = 1
    /\ first_results = <<>>
    /\ TiebreakIdle
    /\ TaskIdle

Init ==
    \E s \in Snapshots, spots \in 1..MaxSpots, n \in 0..MaxTrials :
        Loaded(s, spots, n, FALSE, Unseeded, "start")

---------------------------------------------------------------------------
(* engine.py: simulate_season, one action per step of the function.        *)

\* The ProgressEvery-th trials report progress.
ProgressEvery == 100

\* simulations_routes.py, progress_callback(pct): the callback that
\* run_simulation_task passes sets task.progress = int(50 + pct * 0.45); a
\* caller without a task only records the value.
TaskCallback(t, pct) ==
    IF t.status = "none" THEN t
    ELSE [t EXCEPT !.progress = 50 + (45 * pct[1]) \div (100 * pct[2])]

\* What no step of simulate_season or apply_outcome writes.
Inputs_Unchanged ==
    /\ Task_Unchanged
    /\ UNCHANGED <<remaining, h2h, playoff_spots, num_divisions,
                   n_simulations, progress_callback, disfavor_id, favor_id,
                   tied_teams, ranked, reranked, flips, run_no, first_results>>

Snapshot_Unchanged ==
    /\ Inputs_Unchanged
    /\ UNCHANGED <<teams, shared>>

\* A mutant: the dict of the caller's own Team objects, no copies.
CopyByReference(tm) == [teams |-> tm, fresh |-> FALSE]

\* models.py, Team.copy in {tid: t.copy() for tid, t in teams.items()}: new
\* Team objects with the field values of the caller's.
copy(tm) == [teams |-> tm, fresh |-> TRUE]

\* Lines 183-186: the tallies start at zero.
SimBegin ==
    /\ pc = "start"
    /\ results' = [i \in DOMAIN teams |-> SimulationResult(i)]
    /\ sim_idx' = 0
    /\ pc' = "loop"
    /\ UNCHANGED <<sim_teams, sim_h2h, game_idx, division_winners,
                   playoff_teams, progress_calls, rng>>
    /\ UNCHANGED task
    /\ Snapshot_Unchanged

\* Lines 188-197: the head of a trial.
TrialBegin ==
    /\ pc = "loop"
    /\ sim_idx < n_simulations
    /\ progress_calls' =
          IF progress_callback /\ sim_idx % ProgressEvery = 0
          THEN Append(progress_calls, ProgressValue(sim_idx, n_simulations))
          ELSE progress_calls
    /\ task' =
          IF progress_callback /\ sim_idx % ProgressEvery = 0
          THEN TaskCallback(task, ProgressValue(sim_idx, n_simulations))
          ELSE task
    /\ sim_teams' = copy(teams).teams
    /\ shared' = ~copy(teams).fresh
    /\ sim_h2h' = <<>>
    /\ game_idx' = 1
    /\ pc' = "games"
    /\ UNCHANGED <<results, sim_idx, division_winners, playoff_teams, rng, teams>>
    /\ Inputs_Unchanged

\* Lines 200-219: one remaining matchup is decided.
SimulateGame ==
    /\ pc = "games"
    /\ game_idx <= Len(remaining)
    /\ LET matchup == remaining[game_idx]
       IN /\ {matchup.home_team_id, matchup.away_team_id} \subseteq DOMAIN sim_teams
          /\ \E c \in Choice(rng, matchup.home_team_id, matchup.away_team_id) :
               /\ sim_teams' = RecordGame(sim_teams, matchup, c[1])
               /\ sim_h2h' = TrackH2H(sim_h2h, matchup, c[1])
               /\ rng' = c[2]
    /\ teams' = IF shared THEN sim_teams' ELSE teams
    /\ game_idx' = game_idx + 1
    /\ UNCHANGED <<pc, results, sim_idx, division_winners, playoff_teams,
                   progress_calls, shared>>
    /\ UNCHANGED task
    /\ Inputs_Unchanged

\* Lines 225-227: the call of determine_playoffs.
DeterminePlayoffs ==
    /\ pc = "games"
    /\ game_idx > Len(remaining)
    /\ \E o \in determine_playoffs(sim_teams, h2h, sim_h2h, playoff_spots,
                                   None, None, rng) :
         /\ playoff_teams' = o.playoff_teams
         /\ division_winners' = o.division_winners
         /\ rng' = o.rng
    /\ pc' = "tally"
    /\ UNCHANGED <<results, sim_idx, sim_teams, sim_h2h, game_idx, progress_calls>>
    /\ UNCHANGED task
    /\ Snapshot_Unchanged

\* Lines 229-254: the tallies of the trial, with the last-place tiebreak.
RecordTrial ==
    /\ pc = "tally"
    /\ \E l \in LastPlaceStep(sim_teams, h2h, sim_h2h, rng) :
         /\ results' = Tally(results, division_winners, playoff_teams, l.credited)
         /\ rng' = l.rng
    /\ sim_idx' = sim_idx + 1
    /\ pc' = "loop"
    /\ UNCHANGED <<sim_teams, sim_h2h, game_idx, division_winners,
                   playoff_teams, progress_calls>>
    /\ UNCHANGED task
    /\ Snapshot_Unchanged

\* Lines 256-260: the final progress update and the return.
SimEnd ==
    /\ pc = "loop"
    /\ sim_idx >= n_simulations
    /\ progress_calls' =
          IF progress_callback THEN Append(progress_calls, <<100, 1>>)
          ELSE progress_calls
    /\ task' = IF progress_callback THEN TaskCallback(task, <<100, 1>>) ELSE task
    /\ pc' = "done"
    /\ UNCHANGED <<results, sim_idx, sim_teams, sim_h2h, game_idx,
                   division_winners, playoff_teams, rng>>
    /\ Snapshot_Unchanged

Next ==
    \/ SimBegin
    \/ TrialBegin
    \/ SimulateGame
    \/ DeterminePlayoffs
    \/ RecordTrial
    \/ SimEnd

Spec == Init /\ [][Next]_vars

---------------------------------------------------------------------------
(* magic_numbers.py: calculate_magic_numbers, the playoff target.  Wins    *)
(* are kept doubled, so that wins + 0.5 * ties stays an integer.           *)

games_remaining(rem, id) ==
    Cardinality({k \in 1..Len(rem) : rem[k].home_team_id = id})
        + Cardinality({k \in 1..Len(rem) : rem[k].away_team_id = id})

games_between(rem, a, b) ==
    Cardinality({k \in 1..Len(rem) :
                    \/ rem[k].home_team_id = a /\ rem[k].away_team_id = b
                    \/ rem[k].home_team_id = b /\ rem[k].away_team_id = a})

\* Twice effective_wins(team).
effective_wins(t) == 2 * t.wins + t.ties

owns_tiebreaker(tm, rem, hist, team1_id, team2_id) ==
    LET record == get_h2h_record(hist, team1_id, team2_id)
        t1_wins == record[1]
        t2_wins == record[2]
        remaining_h2h == games_between(rem, team1_id, team2_id)
        h2h_result ==
            IF remaining_h2h > 0
            THEN IF t1_wins > t2_wins + remaining_h2h THEN "win"
                 ELSE IF t2_wins > t1_wins + remaining_h2h THEN "lose"
                 ELSE "tied"
            ELSE IF t1_wins > t2_wins THEN "win"
                 ELSE IF t2_wins > t1_wins THEN "lose"
                 ELSE "tied"
        d1 == division_win_pct(tm[team1_id])
        d2 == division_win_pct(tm[team2_id])
    IN IF h2h_result # "tied" THEN h2h_result
       ELSE IF PctGt(d1, d2) THEN "win"
       ELSE IF PctGt(d2, d1) THEN "lose"
       ELSE "uncertain"

\* Lines 164-211: magic_playoff before a need of 0 is turned into None.
\* `defined` is FALSE where the code assigns None.
MagicPlayoffNeed(tm, rem, hist, spots, id) ==
    LET other_teams == SelectSeq(TeamsSeq(tm), LAMBDA o : o # id)
        others == Range(other_teams)
        full == [o \in others |->
                    effective_wins(tm[o]) + 2 * games_remaining(rem, o)]
        sub == [o \in others |-> full[o] - 2 * games_between(rem, o, id)]
        potential_conservative ==
            SortDesc(other_teams, [o \in others |-> <<full[o], 1>>])
        potential_with_sub ==
            SortDesc(other_teams, [o \in others |-> <<sub[o], 1>>])
        team_eff_wins == effective_wins(tm[id])
        team_remaining == games_remaining(rem, id)
        \* gap2 is twice the gap; ceil(gap) and ceil(gap + 0.001)
        Needed(nth_id, gap2) ==
            IF owns_tiebreaker(tm, rem, hist, id, nth_id) = "win"
            THEN IF gap2 <= 0 THEN 0 ELSE (gap2 + 1) \div 2
            ELSE IF gap2 < 0 THEN 0 ELSE (gap2 \div 2) + 1
        nth_cons_id == potential_conservative[spots]
        nth_sub_id == potential_with_sub[spots]
        needed_cons == Needed(nth_cons_id, full[nth_cons_id] - team_eff_wins)
        needed_sub == Needed(nth_sub_id, sub[nth_sub_id] - team_eff_wins)
    IN IF Len(other_teams) >= spots
       THEN IF needed_cons <= team_remaining
            THEN [defined |-> TRUE, need |-> needed_cons]
            ELSE IF needed_sub <= team_remaining
            THEN [defined |-> TRUE, need |-> team_remaining]
            ELSE [defined |-> FALSE, need |-> 0]
       ELSE [defined |-> FALSE, need |-> 0]

\* Lines 213-214: the magic_playoffs reported (None or a number of wins).
magic_playoffs(tm, rem, hist, spots, id) ==
    LET m == MagicPlayoffNeed(tm, rem, hist, spots, id)
    IN IF m.defined /\ m.need # 0 THEN m.need ELSE None

\* calculate_magic_numbers found that the team needs no further win.
NeedsNoWin(tm, rem, hist, spots, id) ==
    LET m == MagicPlayoffNeed(tm, rem, hist, spots, id)
    IN m.defined /\ m.need = 0

\* The greatest element of a non-empty set of integers.
SetMax(S) == CHOOSE x \in S : \A y \in S : y <= x

\* Lines 137-146, 228-237: the wins needed against one rival whose best
\* total exceeds the team's by gap2 / 2: ceil(gap) when the team owns the
\* tiebreaker, ceil(gap + 0.001) otherwise.
NeededWins(tm, rem, hist, id, rival, gap2) ==
    IF owns_tiebreaker(tm, rem, hist, id, rival) = "win"
    THEN IF gap2 <= 0 THEN 0 ELSE (gap2 + 1) \div 2
    ELSE IF gap2 < 0 THEN 0 ELSE (gap2 \div 2) + 1

\* MagicOverRivals without the step that reports a need of 0 as None.
MagicOverRivalsKeepZero(tm, rem, hist, id, rivals) ==
    LET team_eff_wins == effective_wins(tm[id])
        team_remaining == games_remaining(rem, id)
        Full(o) == effective_wins(tm[o]) + 2 * games_remaining(rem, o)
        Sub(o) == Full(o) - 2 * games_between(rem, o, id)
        conservative ==
            SetMax({0} \cup {NeededWins(tm, rem, hist, id, o, Full(o) - team_eff_wins)
                                : o \in rivals})
        with_sub ==
            SetMax({0} \cup {NeededWins(tm, rem, hist, id, o, Sub(o) - team_eff_wins)
                                : o \in rivals})
    IN IF rivals = {} THEN None
       ELSE IF conservative <= team_remaining THEN conservative
       ELSE IF with_sub <= team_remaining THEN team_remaining
       ELSE None

\* Lines 125-160 (rivals of the division) and 220-251 (all other teams):
\* the wins that keep the team ahead of every rival, None when no win is
\* needed, when the need cannot be met, or when there is no rival.
MagicOverRivals(tm, rem, hist, id, rivals) ==
    LET team_eff_wins == effective_wins(tm[id])
        team_remaining == games_remaining(rem, id)
        Full(o) == effective_wins(tm[o]) + 2 * games_remaining(rem, o)
        Sub(o) == Full(o) - 2 * games_between(rem, o, id)
        conservative ==
            SetMax({0} \cup {NeededWins(tm, rem, hist, id, o, Full(o) - team_eff_wins)
                                : o \in rivals})
        with_sub ==
            SetMax({0} \cup {NeededWins(tm, rem, hist, id, o, Sub(o) - team_eff_wins)
                                : o \in rivals})
        magic == IF conservative <= team_remaining THEN conservative
                 ELSE IF with_sub <= team_remaining THEN team_remaining
                 ELSE None
    IN IF rivals = {} THEN None
       ELSE IF magic = 0 THEN None
       ELSE magic

\* Lines 122-162.
magic_division(tm, rem, hist, id) ==
    MagicOverRivals(tm, rem, hist, id,
                    {o \in DOMAIN tm : o # id /\ tm[o].division_id = tm[id].division_id})

\* Lines 218-253.
magic_first_seed(tm, rem, hist, id) ==
    MagicOverRivals(tm, rem, hist, id, DOMAIN tm \ {id})

\* Lines 255-266: the losses that drop the team to last place.
magic_last(tm, rem, hist, id) ==
    LET others == DOMAIN tm \ {id}
        min_other_eff_wins ==
            CHOOSE x \in {effective_wins(tm[o]) : o \in others} :
                \A o \in others : x <= effective_wins(tm[o])
        team_remaining == games_remaining(rem, id)
        gap2 == effective_wins(tm[id]) + 2 * team_remaining - min_other_eff_wins
    IN IF others = {} THEN None
       ELSE IF gap2 < 0 THEN None
       ELSE IF (gap2 \div 2) + 1 > team_remaining THEN None
       ELSE (gap2 \div 2) + 1

\* models.py: the MagicNumbers of one team.
MagicNumbers(id, div, playoffs, first, last) ==
    [team_id |-> id, magic_division |-> div, magic_playoffs |-> playoffs,
     magic_first_seed |-> first, magic_last |-> last]

calculate_magic_numbers(tm, rem, hist, spots) ==
    [id \in DOMAIN tm |->
        MagicNumbers(id,
                     magic_division(tm, rem, hist, id),
                     magic_playoffs(tm, rem, hist, spots, id),
                     magic_first_seed(tm, rem, hist, id),
                     magic_last(tm, rem, hist, id))]

---------------------------------------------------------------------------
(* scenarios.py: the clinch and elimination strings of the current week.   *)
(* The string f"{team.name} <text> {opponent.name}" is kept as the triple  *)
(* of the team, the text and the opponent; team names are taken distinct.  *)

Scenario(team_id, text, opponent_id) ==
    [team |-> team_id, text |-> text, opponent |-> opponent_id]

ClinchDivision == "clinches division with a WIN vs"
ClinchPlayoffs == "clinches playoff spot with a WIN vs"
ClinchFirstSeed == "clinches #1 seed with a WIN vs"
EliminatedPlayoffs == "eliminated from playoffs if: LOSS to"
EliminatedDivision == "eliminated from division race if: LOSS to"

\* [m for m in remaining if m.week == current_week]
CurrentWeekMatchups(rem, week) == SelectSeq(rem, LAMBDA m : m.week = week)

\* The indices of the matchups in which the team plays.
GamesOf(matchups, id) ==
    {k \in 1..Len(matchups) :
        matchups[k].home_team_id = id \/ matchups[k].away_team_id = id}

\* opponents.get(team.id): the dict keeps the last matchup of a team, and
\* within a matchup the entry written for the away team comes last.
OpponentId(matchups, id) ==
    IF GamesOf(matchups, id) = {} THEN None
    ELSE LET m == matchups[SetMax(GamesOf(matchups, id))]
         IN IF m.away_team_id = id THEN m.home_team_id ELSE m.away_team_id

\* opponent = teams.get(opponent_id) if opponent_id else None
HasOpponent(tm, matchups, id) ==
    /\ OpponentId(matchups, id) # None
    /\ OpponentId(matchups, id) \in DOMAIN tm

\* The "Remove duplicates" loops: first occurrences, in order.
RECURSIVE Dedupe(_)
Dedupe(seq) ==
    IF seq = <<>> THEN <<>>
    ELSE LET init == Dedupe(SubSeq(seq, 1, Len(seq) - 1))
             last == seq[Len(seq)]
         IN IF last \in Range(init) THEN init ELSE Append(init, last)

\* The concatenation of a sequence of sequences.
RECURSIVE Flatten(_)
Flatten(seqs) == IF seqs = <<>> THEN <<>> ELSE Head(seqs) \o Flatten(Tail(seqs))

\* Lines 76-94: the clinch strings of one team.
AnalyticalClinch(tm, matchups, magic, id) ==
    LET opp == OpponentId(matchups, id)
        has == HasOpponent(tm, matchups, id)
    IN (IF magic[id].magic_division = 1 /\ has
        THEN <<Scenario(id, ClinchDivision, opp)>> ELSE <<>>)
       \o (IF magic[id].magic_playoffs = 1 /\ has
           THEN <<Scenario(id, ClinchPlayoffs, opp)>> ELSE <<>>)
       \o (IF magic[id].magic_first_seed = 1 /\ has
           THEN <<Scenario(id, ClinchFirstSeed, opp)>> ELSE <<>>)

\* The elimination string of one team when a team that cannot reach the
\* last playoff place any more is listed as well.
AnalyticalEliminationUnguarded(tm, rem, matchups, spots, id) ==
    LET opp == OpponentId(matchups, id)
        others == SelectSeq(TeamsSeq(tm), LAMBDA o : o # id)
        team_max_potential == effective_wins(tm[id]) + 2 * games_remaining(rem, id)
        team_max_if_loses == team_max_potential - 2
        min_wins == [o \in Range(others) |->
                        IF o = opp THEN effective_wins(tm[o]) + 2
                        ELSE effective_wins(tm[o])]
        scenario_mins == SortDesc(others, [o \in Range(others) |-> <<min_wins[o], 1>>])
    IN IF /\ HasOpponent(tm, matchups, id)
          /\ Len(scenario_mins) >= spots
          /\ min_wins[scenario_mins[spots]] > team_max_if_loses
       THEN <<Scenario(id, EliminatedPlayoffs, opp)>>
       ELSE <<>>

\* Lines 98-130: the elimination string of one team.  Wins are doubled.
AnalyticalElimination(tm, rem, matchups, spots, id) ==
    LET opp == OpponentId(matchups, id)
        others == SelectSeq(TeamsSeq(tm), LAMBDA o : o # id)
        team_max_potential == effective_wins(tm[id]) + 2 * games_remaining(rem, id)
        team_max_if_loses == team_max_potential - 2
        min_wins == [o \in Range(others) |->
                        IF o = opp THEN effective_wins(tm[o]) + 2
                        ELSE effective_wins(tm[o])]
        scenario_mins == SortDesc(others, [o \in Range(others) |-> <<min_wins[o], 1>>])
        current_eff_wins ==
            SortDesc(others, [o \in Range(others) |-> <<effective_wins(tm[o]), 1>>])
        sixth_best_current ==
            IF Len(current_eff_wins) >= spots
            THEN effective_wins(tm[current_eff_wins[spots]]) ELSE 0
        not_already_eliminated == team_max_potential >= sixth_best_current
    IN IF /\ HasOpponent(tm, matchups, id)
          /\ Len(scenario_mins) >= spots
          /\ min_wins[scenario_mins[spots]] > team_max_if_loses
          /\ not_already_eliminated
       THEN <<Scenario(id, EliminatedPlayoffs, opp)>>
       ELSE <<>>

\* The pair (clinch_scenarios, elimination_scenarios) returned.
generate_clinch_elimination_scenarios(tm, rem, magic, week, spots) ==
    LET matchups == CurrentWeekMatchups(rem, week)
        ids == TeamsSeq(tm)
    IN [clinch |-> Dedupe(Flatten([k \in 1..Len(ids) |->
                        AnalyticalClinch(tm, matchups, magic, ids[k])])),
        elimination |-> Dedupe(Flatten([k \in 1..Len(ids) |->
                        AnalyticalElimination(tm, rem, matchups, spots, ids[k])]))]

---------------------------------------------------------------------------
(* scenarios.py: brute_force_clinch_elimination.                           *)

\* The number of determine_playoffs runs of one probe.
coin_flip_runs == 25

\* 2 ** n_games
total_outcomes(matchups) == 2 ^ Len(matchups)

\* Lines 227-230: bit g of outcome_idx picks the home (0) or away (1) team.
Winners(matchups, outcome_idx) ==
    [g \in 1..Len(matchups) |->
        IF (outcome_idx \div (2 ^ (g - 1))) % 2 = 0
        THEN matchups[g].home_team_id ELSE matchups[g].away_team_id]

\* team_game_idx.get(tid): the last current-week matchup of the team.
team_game_idx(matchups, tid) ==
    IF GamesOf(matchups, tid) = {} THEN None ELSE SetMax(GamesOf(matchups, tid))

\* winners[game_idx] == tid, for a team that plays this week.
WonGame(matchups, winners, tid) ==
    /\ team_game_idx(matchups, tid) # None
    /\ winners[team_game_idx(matchups, tid)] = tid

\* winners[game_idx] != tid, for a team that plays this week.
LostGame(matchups, winners, tid) ==
    /\ team_game_idx(matchups, tid) # None
    /\ winners[team_game_idx(matchups, tid)] # tid

\* What the runs of one probe can show: each run is one of the results
\* determine_playoffs allows, seen as (in the playoffs, won the division);
\* up to coin_flip_runs different ones are seen.
Samples(runs, tid) ==
    {S \in SUBSET {<<tid \in Range(o.playoff_teams), tid \in Range(o.division_winners)>>
                      : o \in runs} :
        S # {} /\ Cardinality(S) <= coin_flip_runs}

\* Lines 240-254: made_playoffs_all_runs and won_division_all_runs.
ClinchProbe(tm, hist, sim, spots, tid, r) ==
    {[clinch |-> \A x \in S : x[1], div_clinch |-> \A x \in S : x[2]] :
        S \in Samples(determine_playoffs(tm, hist, sim, spots, tid, None, r), tid)}

\* Lines 268-282: missed_playoffs_all_runs and missed_division_all_runs.
EliminationProbe(tm, hist, sim, spots, tid, r) ==
    {[elim |-> \A x \in S : ~x[1], div_elim |-> \A x \in S : ~x[2]] :
        S \in Samples(determine_playoffs(tm, hist, sim, spots, None, tid, r), tid)}

\* Lines 296-301: the outcome_results entries one team can get.
TeamOutcomeResults(tm, hist, sim, spots, tid, r) ==
    {[clinch |-> c.clinch, elim |-> e.elim,
      div_clinch |-> c.div_clinch, div_elim |-> e.div_elim] :
        c \in ClinchProbe(tm, hist, sim, spots, tid, r),
        e \in EliminationProbe(tm, hist, sim, spots, tid, r)}

\* The outcome_results dicts the loop over team_ids can build.
RECURSIVE OutcomeResults(_, _, _, _, _, _)
OutcomeResults(ids, tm, hist, sim, spots, r) ==
    IF ids = <<>> THEN {<<>>}
    ELSE {(Head(ids) :> x) @@ rest :
            x \in TeamOutcomeResults(tm, hist, sim, spots, Head(ids), r),
            rest \in OutcomeResults(Tail(ids), tm, hist, sim, spots, r)}

\* Lines 204-220: the locals before the loop over the outcomes.
BruteStart(tm) ==
    LET all == [t \in DOMAIN tm |-> TRUE]
    IN [outcome_idx |-> 0,
        clinch_all |-> all, elim_all |-> all,
        team_clinch_when_wins |-> all, team_elim_when_loses |-> all,
        div_clinch_all |-> all, div_elim_all |-> all,
        team_div_clinch_when_wins |-> all, team_div_elim_when_loses |-> all,
        outcome_playoff_results |-> <<>>]

\* Lines 256-294 and 303: the flags after one outcome with results res.
BruteRecord(b, matchups, winners, res) ==
    [outcome_idx |-> b.outcome_idx + 1,
     clinch_all |-> [t \in DOMAIN res |-> b.clinch_all[t] /\ res[t].clinch],
     team_clinch_when_wins |->
        [t \in DOMAIN res |-> b.team_clinch_when_wins[t]
                                /\ ~(~res[t].clinch /\ WonGame(matchups, winners, t))],
     div_clinch_all |-> [t \in DOMAIN res |-> b.div_clinch_all[t] /\ res[t].div_clinch],
     team_div_clinch_when_wins |->
        [t \in DOMAIN res |-> b.team_div_clinch_when_wins[t]
                                /\ ~(~res[t].div_clinch /\ WonGame(matchups, winners, t))],
     elim_all |-> [t \in DOMAIN res |-> b.elim_all[t] /\ res[t].elim],
     team_elim_when_loses |->
        [t \in DOMAIN res |-> b.team_elim_when_loses[t]
                                /\ ~(~res[t].elim /\ LostGame(matchups, winners, t))],
     div_elim_all |-> [t \in DOMAIN res |-> b.div_elim_all[t] /\ res[t].div_elim],
     team_div_elim_when_loses |->
        [t \in DOMAIN res |-> b.team_div_elim_when_loses[t]
                                /\ ~(~res[t].div_elim /\ LostGame(matchups, winners, t))],
     outcome_playoff_results |-> (winners :> res) @@ b.outcome_playoff_results]

\* Lines 222-303: the locals one pass of the outcome loop can leave.
BruteOutcome(b, tm, matchups, hist, spots, r) ==
    LET winners == Winners(matchups, b.outcome_idx)
        a == apply_outcome(tm, <<>>, matchups, winners)
    IN {BruteRecord(b, matchups, winners, res) :
            res \in OutcomeResults(TeamsSeq(tm), a.sim_teams, hist, a.sim_h2h, spots, r)}

\* The clinch strings of one team when a team secured in every vector is
\* listed as well.
BruteClinchListsSecured(b, tm, matchups, tid) ==
    LET opp == OpponentId(matchups, tid)
        has == HasOpponent(tm, matchups, tid)
    IN (IF b.team_clinch_when_wins[tid] /\ has
        THEN <<Scenario(tid, ClinchPlayoffs, opp)>> ELSE <<>>)
       \o (IF ~b.div_clinch_all[tid] /\ b.team_div_clinch_when_wins[tid] /\ has
           THEN <<Scenario(tid, ClinchDivision, opp)>> ELSE <<>>)

\* Lines 314-328: the clinch strings of one team.
BruteClinch(b, tm, matchups, tid) ==
    LET opp == OpponentId(matchups, tid)
        has == HasOpponent(tm, matchups, tid)
    IN (IF ~b.clinch_all[tid] /\ b.team_clinch_when_wins[tid] /\ has
        THEN <<Scenario(tid, ClinchPlayoffs, opp)>> ELSE <<>>)
       \o (IF ~b.div_clinch_all[tid] /\ b.team_div_clinch_when_wins[tid] /\ has
           THEN <<Scenario(tid, ClinchDivision, opp)>> ELSE <<>>)

\* The elimination strings of one team when a team blocked in every vector
\* is listed as well.
BruteEliminationListsBlocked(b, tm, matchups, tid) ==
    LET opp == OpponentId(matchups, tid)
        has == HasOpponent(tm, matchups, tid)
    IN (IF b.team_elim_when_loses[tid] /\ has
        THEN <<Scenario(tid, EliminatedPlayoffs, opp)>> ELSE <<>>)
       \o (IF ~b.div_elim_all[tid] /\ b.team_div_elim_when_loses[tid] /\ has
           THEN <<Scenario(tid, EliminatedDivision, opp)>> ELSE <<>>)

\* Lines 330-344: the elimination strings of one team.
BruteElimination(b, tm, matchups, tid) ==
    LET opp == OpponentId(matchups, tid)
        has == HasOpponent(tm, matchups, tid)
    IN (IF ~b.elim_all[tid] /\ b.team_elim_when_loses[tid] /\ has
        THEN <<Scenario(tid, EliminatedPlayoffs, opp)>> ELSE <<>>)
       \o (IF ~b.div_elim_all[tid] /\ b.team_div_elim_when_loses[tid] /\ has
           THEN <<Scenario(tid, EliminatedDivision, opp)>> ELSE <<>>)

\* Lines 305-364: the two lists built from the flags.
BruteExtract(b, tm, matchups) ==
    LET ids == TeamsSeq(tm)
    IN [clinch |-> Dedupe(Flatten([k \in 1..Len(ids) |->
                        BruteClinch(b, tm, matchups, ids[k])])),
        elimination |-> Dedupe(Flatten([k \in 1..Len(ids) |->
                        BruteElimination(b, tm, matchups, ids[k])]))]

\* The locals the whole outcome loop can leave, from locals b on.
RECURSIVE BruteLoop(_, _, _, _, _, _)
BruteLoop(b, tm, matchups, hist, spots, r) ==
    IF b.outcome_idx >= total_outcomes(matchups) THEN {b}
    ELSE UNION {BruteLoop(n, tm, matchups, hist, spots, r) :
                    n \in BruteOutcome(b, tm, matchups, hist, spots, r)}

\* The pairs (clinch_scenarios, elimination_scenarios) the function can
\* return for a snapshot all of whose current-week teams are known.
brute_force_clinch_elimination(tm, rem, hist, week, spots, r) ==
    LET matchups == CurrentWeekMatchups(rem, week)
    IN IF Len(matchups) = 0 THEN {[clinch |-> <<>>, elimination |-> <<>>]}
       ELSE {BruteExtract(b, tm, matchups) :
                b \in BruteLoop(BruteStart(tm), tm, matchups, hist, spots, r)}

---------------------------------------------------------------------------
(* Claims about simulate_season (checked under Spec).                      *)

RECURSIVE SumOver(_, _)
SumOver(f, S) ==
    IF S = {} THEN 0
    ELSE LET x == CHOOSE y \in S : TRUE IN f[x] + SumOver(f, S \ {x})

\* The sum of one counter over all teams.
Total(field) == SumOver([i \in DOMAIN results |-> results[i][field]], DOMAIN results)

BetweenTrials == pc \in {"loop", "done"}

\* C1 as stated: after any number of trials the playoff appearances of all
\* teams add up to trials * playoff_spots.
C1_PlayoffAppearancesSum ==
    BetweenTrials => Total("playoff_appearances") = sim_idx * playoff_spots

\* C2 as stated: after any number of trials the division wins of all teams
\* add up to trials * num_divisions.
C2_DivisionWinsSum ==
    BetweenTrials => Total("division_wins") = sim_idx * num_divisions

\* C3: after any number of trials the first seeds add up to the number of
\* trials, and so do the last places; a finished run has done every trial.
C3_OneFirstSeedOneLastPlace ==
    /\ BetweenTrials =>
          /\ Total("first_seed") = sim_idx
          /\ Total("last_place") = sim_idx
    /\ pc = "done" => sim_idx = n_simulations

\* A finished run of two trials or more whose last place went, after a tie
\* for the worst record, to different teams in different trials.
C3_Witness ==
    /\ pc = "done"
    /\ n_simulations >= 2
    /\ Cardinality({i \in DOMAIN results : results[i].last_place > 0}) >= 2
    /\ Cardinality({i \in DOMAIN teams : teams[i].wins = 0}) >= 2

\* C4 as stated: a team that calculate_magic_numbers finds to need no more
\* win is in the playoff list of every trial.
C4_ClinchedAlwaysQualifies ==
    pc = "tally" =>
        \A i \in DOMAIN teams :
            NeedsNoWin(teams, remaining, h2h, playoff_spots, i)
                => i \in Range(playoff_teams)

---------------------------------------------------------------------------
(* Two runs of simulate_season on one snapshot after random.seed(seed).    *)

InitSeed ==
    \E s \in Snapshots, spots \in 1..MaxSpots, n \in 0..MaxTrials,
       seed \in 1..MaxSeed :
        Loaded(s, spots, n, FALSE, Seeded(seed), "start")

\* The caller keeps the tallies, seeds the generator again and calls again.
Rerun ==
    /\ pc = "done"
    /\ run_no = 1
    /\ first_results' = results
    /\ run_no' = 2
    /\ rng' = Seeded(rng.seed)
    /\ pc' = "start"
    /\ Task_Unchanged
    /\ UNCHANGED <<task, shared>>
    /\ UNCHANGED <<teams, remaining, h2h, playoff_spots, num_divisions,
                   n_simulations, progress_callback, results, sim_idx,
                   sim_teams, sim_h2h, game_idx, division_winners,
                   playoff_teams, progress_calls, disfavor_id, favor_id,
                   tied_teams, ranked, reranked, flips>>

NextSeed == Next \/ Rerun

SpecSeed == InitSeed /\ [][NextSeed]_vars

---------------------------------------------------------------------------
(* A long run of simulate_season with a progress callback.                 *)

\* A two-team league without divisions: team 1 won the three games played,
\* one game is left.
LongRunSnapshot ==
    [teams |-> (1 :> Team(1, 0, 3, 0, 0, 0, 0, 0)) @@ (2 :> Team(2, 0, 0, 3, 0, 0, 0, 0)),
     h2h |-> (<<1, 2>> :> <<3, 0, 0>>),
     remaining |-> <<Matchup(1, 2, 4, FALSE)>>,
     num_divisions |-> 0]

InitProgress ==
    \E n \in 0..MaxProgressTrials :
        Loaded(LongRunSnapshot, 1, n, TRUE, Unseeded, "start")

SpecProgress == InitProgress /\ [][Next]_vars

PctLe(p, q) == ~PctGt(p, q)

NonDecreasing(calls) ==
    \A k \in 1..(Len(calls) - 1) : PctLe(calls[k], calls[k + 1])

EndsAt100(calls) == calls # <<>> /\ PctEq(calls[Len(calls)], <<100, 1>>)

---------------------------------------------------------------------------
(* A worst-case playoff check: apply_outcome on one assignment of winners   *)
(* to the remaining matchups, then determine_playoffs with one team losing *)
(* every coin flip, as scenarios.py runs it for its clinch verdicts.       *)

\* One winner per matchup.
OutcomeVectors(matchups) ==
    {[k \in 1..Len(matchups) |->
         IF home_wins[k] THEN matchups[k].home_team_id
         ELSE matchups[k].away_team_id] :
        home_wins \in [1..Len(matchups) -> BOOLEAN]}

InitClinch ==
    \E s \in Snapshots, spots \in 1..MaxSpots :
        Loaded(s, spots, 0, FALSE, Unseeded, "outcome")

ApplyOutcome ==
    /\ pc = "outcome"
    /\ \E outcomes \in OutcomeVectors(remaining) :
         LET c == copy(teams)
             a == apply_outcome(c.teams, <<>>, remaining, outcomes)
         IN /\ sim_teams' = a.sim_teams
            /\ sim_h2h' = a.sim_h2h
            /\ shared' = ~c.fresh
            /\ teams' = IF c.fresh THEN teams ELSE a.sim_teams
    /\ pc' = "applied"
    /\ UNCHANGED <<results, sim_idx, game_idx, division_winners,
                   playoff_teams, progress_calls, rng>>
    /\ UNCHANGED task
    /\ Inputs_Unchanged

\* determine_playoffs(sim_teams, h2h, sim_h2h, playoff_spots, disfavor_id=tid)
DisfavoredRun ==
    /\ pc = "applied"
    /\ \E tid \in DOMAIN teams :
         /\ disfavor_id' = tid
         /\ \E o \in determine_playoffs(sim_teams, h2h, sim_h2h, playoff_spots,
                                        tid, None, rng) :
              /\ playoff_teams' = o.playoff_teams
              /\ division_winners' = o.division_winners
              /\ rng' = o.rng
    /\ pc' = "checked"
    /\ Task_Unchanged
    /\ UNCHANGED <<task, shared>>
    /\ UNCHANGED <<teams, remaining, h2h, playoff_spots, num_divisions,
                   n_simulations, progress_callback, results, sim_idx,
                   sim_teams, sim_h2h, game_idx, progress_calls, favor_id,
                   tied_teams, ranked, reranked, flips, run_no, first_results>>

NextClinch == ApplyOutcome \/ DisfavoredRun

SpecClinch == InitClinch /\ [][NextClinch]_vars

\* The wins the team gained in the applied assignment.
WinsGained(id) == sim_teams[id].wins - teams[id].wins

\* C5 as stated: a team whose magic_playoffs is m and that wins at least m
\* of its remaining games is in the playoff list, also when it loses every
\* coin flip.
C5_MagicWinsGuaranteePlayoffs ==
    pc = "checked" =>
        LET m == magic_playoffs(teams, remaining, h2h, playoff_spots, disfavor_id)
        IN (m # None /\ WinsGained(disfavor_id) >= m)
               => disfavor_id \in Range(playoff_teams)

---------------------------------------------------------------------------
(* Single-division leagues.                                                *)

\* All teams share one division id.
SingleDivision(tm) == Cardinality({tm[i].division_id : i \in DOMAIN tm}) = 1

\* C11: in a single-division league, in every trial the single division
\* winner returned by determine_playoffs is the #1 seed, the first element
\* of the returned playoff list, also when several teams are tied for the
\* best win_pct.
C11_DivisionWinnerIsFirstSeed ==
    (pc = "tally" /\ SingleDivision(sim_teams))
        => /\ Len(division_winners) = 1
           /\ division_winners = FirstSeed(playoff_teams)

---------------------------------------------------------------------------
(* simulations_routes.py: run_simulation_task, one action per step between *)
(* two progress updates.  An exception raised in a step is caught by the   *)
(* handler of lines 219-221, which marks the task failed.                  *)

\* The number of remaining matchups up to which the brute-force path runs.
BruteForceLimit == 10

\* db/repositories.py: update_progress, complete, fail.
update_progress(t, progress) == [status |-> "running", progress |-> progress]
complete(t) == [status |-> "completed", progress |-> 100]
fail(t) == [status |-> "failed", progress |-> t.progress]

\* Lines 63-83: Sport(...) raises on an unknown sport; a yahoo or cbs task
\* without a stored credential raises PlatformError, and without a user
\* get_adapter raises ValueError.
PrepareRaises(req, prov) ==
    \/ ~req.sport_valid
    \/ req.platform \in {"yahoo", "cbs"} /\ ~(req.user_id # None /\ prov.credential)

\* What run_simulation_task leaves alone until the simulation starts.
Engine_Unchanged ==
    UNCHANGED <<num_divisions, n_simulations, progress_callback, results,
                sim_idx, sim_teams, shared, sim_h2h, game_idx, division_winners,
                playoff_teams, progress_calls, disfavor_id, favor_id,
                tied_teams, ranked, reranked, flips, rng, run_no, first_results>>

\* The handler of lines 219-221.
Failed ==
    /\ task' = fail(task)
    /\ pc' = "finished"
    /\ UNCHANGED <<teams, remaining, h2h, playoff_spots, current_week,
                   magic_numbers, brute, clinch_scenarios,
                   elimination_scenarios, team_results, request, provider>>
    /\ Engine_Unchanged

\* Lines 62-88: the sport, the credentials, the adapter, "running".
TaskPrepare ==
    /\ pc = "prepare"
    /\ IF PrepareRaises(request, provider) THEN Failed
       ELSE /\ task' = update_progress(task, 5)
            /\ pc' = "fetch_standings"
            /\ UNCHANGED <<teams, remaining, h2h, playoff_spots, current_week,
                           magic_numbers, brute, clinch_scenarios,
                           elimination_scenarios, team_results, request, provider>>
            /\ Engine_Unchanged

\* Lines 91-93: adapter.fetch_standings.
FetchStandings ==
    /\ pc = "fetch_standings"
    /\ IF provider.fails = "standings" THEN Failed
       ELSE /\ teams' = provider.league.teams
            /\ task' = update_progress(task, 15)
            /\ pc' = "fetch_schedule"
            /\ UNCHANGED <<remaining, h2h, playoff_spots, current_week,
                           magic_numbers, brute, clinch_scenarios,
                           elimination_scenarios, team_results, request, provider>>
            /\ Engine_Unchanged

\* Lines 95-99: adapter.fetch_schedule.
FetchSchedule ==
    /\ pc = "fetch_schedule"
    /\ IF provider.fails = "schedule" THEN Failed
       ELSE /\ remaining' = provider.league.remaining
            /\ current_week' = provider.league.current_week
            /\ task' = update_progress(task, 25)
            /\ pc' = "fetch_h2h"
            /\ UNCHANGED <<teams, h2h, playoff_spots, magic_numbers, brute,
                           clinch_scenarios, elimination_scenarios,
                           team_results, request, provider>>
            /\ Engine_Unchanged

\* Lines 101-111: fetch_head_to_head, fetch_league_settings, playoff_spots.
FetchHeadToHead ==
    /\ pc = "fetch_h2h"
    /\ IF provider.fails = "h2h" THEN Failed
       ELSE /\ h2h' = provider.league.h2h
            /\ playoff_spots' = provider.league.playoff_spots
            /\ task' = update_progress(task, 35)
            /\ pc' = "magic"
            /\ UNCHANGED <<teams, remaining, current_week, magic_numbers, brute,
                           clinch_scenarios, elimination_scenarios,
                           team_results, request, provider>>
            /\ Engine_Unchanged

\* Lines 113-116: calculate_magic_numbers; it looks up no team of a
\* matchup, so it returns whatever ids the matchups name.
CalculateMagicNumbers ==
    /\ pc = "magic"
    /\ magic_numbers' = calculate_magic_numbers(teams, remaining, h2h, playoff_spots)
    /\ task' = update_progress(task, 40)
    /\ pc' = "scenarios"
    /\ UNCHANGED <<teams, remaining, h2h, playoff_spots, current_week, brute,
                   clinch_scenarios, elimination_scenarios, team_results,
                   request, provider>>
    /\ Engine_Unchanged

\* Lines 127-144: the scenarios are stored and simulate_season is called
\* with the request's n_simulations and the task's progress callback.
ScenariosDone(lists) ==
    /\ clinch_scenarios' = lists.clinch
    /\ elimination_scenarios' = lists.elimination
    /\ task' = update_progress(task, 50)
    /\ n_simulations' = request.n_simulations
    /\ progress_callback' = TRUE
    /\ pc' = "start"
    /\ UNCHANGED <<remaining, h2h, playoff_spots, current_week,
                   magic_numbers, team_results, request, provider,
                   num_divisions, results, sim_idx, sim_teams, shared, sim_h2h,
                   game_idx, division_winners, playoff_teams, progress_calls,
                   disfavor_id, favor_id, tied_teams, ranked, reranked, flips,
                   rng, run_no, first_results>>

\* Lines 123-126: more than BruteForceLimit matchups remain.
Analytical ==
    /\ pc = "scenarios"
    /\ Len(remaining) > BruteForceLimit
    /\ ScenariosDone(generate_clinch_elimination_scenarios(
                        teams, remaining, magic_numbers, current_week, playoff_spots))
    /\ UNCHANGED <<teams, brute>>

\* Lines 119-122 and scenarios.py 184-220: the brute-force path is entered;
\* without a matchup in the current week it returns two empty lists.
BruteBegin ==
    /\ pc = "scenarios"
    /\ Len(remaining) <= BruteForceLimit
    /\ IF Len(CurrentWeekMatchups(remaining, current_week)) = 0
       THEN /\ ScenariosDone([clinch |-> <<>>, elimination |-> <<>>])
            /\ UNCHANGED <<teams, brute>>
       ELSE /\ brute' = BruteStart(teams)
            /\ pc' = "brute_loop"
            /\ UNCHANGED <<teams, remaining, h2h, playoff_spots, current_week,
                           magic_numbers, clinch_scenarios, elimination_scenarios,
                           team_results, request, provider, task>>
            /\ Engine_Unchanged

\* The ids of the matchups that are not in teams.
UnknownIds(tm, matchups) ==
    ({matchups[k].home_team_id : k \in 1..Len(matchups)}
        \cup {matchups[k].away_team_id : k \in 1..Len(matchups)}) \ DOMAIN tm

\* scenarios.py 222-303: one pass of the loop over the outcomes.
\* apply_outcome works on copies of the Team objects.
BruteOutcomeStep ==
    /\ pc = "brute_loop"
    /\ brute.outcome_idx < total_outcomes(CurrentWeekMatchups(remaining, current_week))
    /\ UnknownIds(teams, CurrentWeekMatchups(remaining, current_week)) = {}
    /\ LET matchups == CurrentWeekMatchups(remaining, current_week)
           c == copy(teams)
       IN /\ \E b \in BruteOutcome(brute, c.teams, matchups, h2h, playoff_spots, rng) :
                brute' = b
          /\ teams' = IF c.fresh THEN teams
                      ELSE apply_outcome(c.teams, <<>>, matchups,
                                         Winners(matchups, brute.outcome_idx)).sim_teams
    /\ UNCHANGED <<pc, remaining, h2h, playoff_spots, current_week, magic_numbers,
                   clinch_scenarios, elimination_scenarios, team_results,
                   request, provider, task>>
    /\ Engine_Unchanged

\* engine.py 41-42 in apply_outcome: sim_teams[winner_id] or
\* sim_teams[loser_id] raises KeyError for an id that is not in teams.
BruteRaises ==
    /\ pc = "brute_loop"
    /\ UnknownIds(teams, CurrentWeekMatchups(remaining, current_week)) # {}
    /\ Failed

\* scenarios.py 305-364: the strings are built from the flags.
BruteFinish ==
    /\ pc = "brute_loop"
    /\ brute.outcome_idx >= total_outcomes(CurrentWeekMatchups(remaining, current_week))
    /\ ScenariosDone(BruteExtract(brute, teams,
                                  CurrentWeekMatchups(remaining, current_week)))
    /\ UNCHANGED <<teams, brute>>

\* engine.py 206-207 in simulate_season: KeyError for an id not in teams.
SimulateRaises ==
    /\ pc = "games"
    /\ task.status = "running"
    /\ game_idx <= Len(remaining)
    /\ UnknownIds(sim_teams, <<remaining[game_idx]>>) # {}
    /\ Failed

\* Lines 160-168: the probability reported for a tally of count in n
\* trials: 0.999 when a magic number is left and count / n >= 0.9995.
ReportedPct(count, n, magic) ==
    IF magic # None /\ count * 10000 >= 9995 * n THEN <<999, 1000>>
    ELSE <<count, n>>

\* Lines 145-189: the four probabilities of every team.
BuildResponse ==
    /\ pc = "done"
    /\ task.status = "running"
    /\ n_simulations > 0
    /\ team_results' =
          [i \in DOMAIN teams |->
              [division_pct |-> ReportedPct(results[i].division_wins, n_simulations,
                                            magic_numbers[i].magic_division),
               playoff_pct |-> ReportedPct(results[i].playoff_appearances, n_simulations,
                                           magic_numbers[i].magic_playoffs),
               first_seed_pct |-> ReportedPct(results[i].first_seed, n_simulations,
                                              magic_numbers[i].magic_first_seed),
               last_place_pct |-> ReportedPct(results[i].last_place, n_simulations,
                                              magic_numbers[i].magic_last)]]
    /\ task' = update_progress(task, 95)
    /\ pc' = "respond"
    /\ UNCHANGED <<teams, remaining, h2h, playoff_spots, current_week,
                   magic_numbers, brute, clinch_scenarios,
                   elimination_scenarios, request, provider>>
    /\ Engine_Unchanged

\* Lines 191-216: the response is cached (cache_repo.set can raise) and
\* task_repo.complete marks the task completed.
CompleteTask ==
    /\ pc = "respond"
    /\ IF provider.fails = "cache" THEN Failed
       ELSE /\ task' = complete(task)
            /\ pc' = "commit"
            /\ UNCHANGED <<teams, remaining, h2h, playoff_spots, current_week,
                           magic_numbers, brute, clinch_scenarios,
                           elimination_scenarios, team_results, request, provider>>
            /\ Engine_Unchanged

\* Lines 217-221: db.commit() after complete is still inside the try block;
\* when it raises, the handler calls task_repo.fail on the same task.
CommitTask ==
    /\ pc = "commit"
    /\ IF provider.fails = "commit" THEN Failed
       ELSE /\ pc' = "finished"
            /\ UNCHANGED <<task, teams, remaining, h2h, playoff_spots, current_week,
                           magic_numbers, brute, clinch_scenarios,
                           elimination_scenarios, team_results, request, provider>>
            /\ Engine_Unchanged

---------------------------------------------------------------------------
(* The leagues the scenario generator is run on: a four-team league that   *)
(* has played some double round robins, and the two end-to-end             *)
(* leagues of a twelve-game season.                                        *)

\* At most MaxRounds double round robins (every pair twice) were played.
MaxRounds == 2

\* The weeks of one double round robin.
RoundWeeks == 2 * Len(Schedule)

\* The matchups of week w of a season that repeats the schedule.
SeasonWeekGames(w, layout) ==
    LET base == WeekGames(((w - 1) % Len(Schedule)) + 1, 4, layout)
    IN [k \in 1..Len(base) |-> [base[k] EXCEPT !.week = w]]

RECURSIVE SeasonGames(_, _, _)
SeasonGames(from, to, layout) ==
    IF from > to THEN <<>>
    ELSE SeasonWeekGames(from, layout) \o SeasonGames(from + 1, to, layout)

\* How many weeks are left: one, as many as make BruteForceLimit matchups,
\* and one more.
LeftWeeks == {1, BruteForceLimit \div 2, BruteForceLimit \div 2 + 1}

\* The league after `rounds` double round robins in which the pair <<a, b>> was
\* won by a when lower_won[<<a, b>>] and by b otherwise, with `left` weeks
\* to play.
SeasonSnapshot(layout, rounds, left, lower_won, spots) ==
    LET played == SeasonGames(1, RoundWeeks * rounds, layout)
        winners == [k \in 1..Len(played) |->
                      LET a == Min2(played[k].home_team_id, played[k].away_team_id)
                          b == Max2(played[k].home_team_id, played[k].away_team_id)
                      IN IF lower_won[<<a, b>>] THEN a ELSE b]
        fresh == [i \in 1..4 |-> Team(i, layout[i], 0, 0, 0, 0, 0, 0)]
        now == apply_outcome(fresh, <<>>, played, winners)
    IN [teams |-> now.sim_teams,
        h2h |-> now.sim_h2h,
        remaining |-> SeasonGames(RoundWeeks * rounds + 1,
                                  RoundWeeks * rounds + left, layout),
        current_week |-> RoundWeeks * rounds + 1,
        playoff_spots |-> spots]

SeasonSnapshots ==
    {SeasonSnapshot(layout, rounds, left, lower_won, spots) :
        layout \in Layouts(4), rounds \in 0..MaxRounds, left \in LeftWeeks,
        lower_won \in [Pairs(1..4) -> BOOLEAN], spots \in 1..MaxSpots}

\* A league of teams 1..4 (A..D) in one division with the given records
\* <<wins, losses>>, no recorded head-to-head games, and the remaining
\* matchups <<home, away, week>>; two playoff spots.
ToyLeague(div, records, games, week) ==
    [teams |-> [i \in 1..4 |-> Team(i, div, records[i][1], records[i][2], 0, 0, 0, 0)],
     h2h |-> <<>>,
     remaining |-> [k \in 1..Len(games) |->
                       Matchup(games[k][1], games[k][2], games[k][3], div # 0)],
     current_week |-> week,
     playoff_spots |-> 2]

\* "Clinch with a win": A 9-2 with one game left against cellar team D,
\* B and C 7-4 with one game left.
ClinchLeagues ==
    {ToyLeague(div, <<<<9, 2>>, <<7, 4>>, <<7, 4>>, <<d, 11 - d>>>>, games, 12) :
        div \in {0, 1}, d \in 0..2,
        games \in {<<<<1, 4, 12>>, <<2, 3, 12>>>>, <<<<4, 1, 12>>, <<3, 2, 12>>>>}}

\* "Elimination": D 1-10 with one game left against A (10-1), B and C 6-5
\* with two games each.
EliminationLeagues ==
    {ToyLeague(div, <<<<10, 1>>, <<6, 5>>, <<6, 5>>, <<1, 10>>>>, games, 12) :
        div \in {0, 1},
        games \in {<<<<4, 1, 12>>, <<2, 3, 12>>, <<3, 2, 13>>>>,
                   <<<<1, 4, 12>>, <<2, 3, 13>>, <<3, 2, 14>>>>}}

ScenarioLeagues == SeasonSnapshots \cup ClinchLeagues \cup EliminationLeagues

\* A request that passes the checks of lines 63-83.
ValidRequest(n) ==
    [sport_valid |-> TRUE, platform |-> "espn", user_id |-> None, n_simulations |-> n]

\* An adapter that answers with the league and never fails.
Provider(league) == [credential |-> FALSE, fails |-> "none", league |-> league]

\* The state of a task that has fetched the league and computed the magic
\* numbers (line 116).
InitScenario ==
    \E league \in ScenarioLeagues :
        /\ request = ValidRequest(1)
        /\ provider = Provider(league)
        /\ task = update_progress([status |-> "running", progress |-> 35], 40)
        /\ teams = league.teams
        /\ remaining = league.remaining
        /\ h2h = league.h2h
        /\ current_week = league.current_week
        /\ playoff_spots = league.playoff_spots
        /\ magic_numbers = calculate_magic_numbers(league.teams, league.remaining,
                                                   league.h2h, league.playoff_spots)
        /\ brute = <<>>
        /\ clinch_scenarios = <<>>
        /\ elimination_scenarios = <<>>
        /\ team_results = <<>>
        /\ pc = "scenarios"
        /\ num_divisions = 0
        /\ n_simulations = 0
        /\ progress_callback = FALSE
        /\ results = <<>>
        /\ sim_idx = 0
        /\ sim_teams = <<>>
        /\ shared = FALSE
        /\ sim_h2h = <<>>
        /\ game_idx = 0
        /\ division_winners = <<>>
        /\ playoff_teams = <<>>
        /\ progress_calls = <<>>
        /\ disfavor_id = None
        /\ favor_id = None
        /\ rng = Unseeded
        /\ run_no = 1
        /\ first_results = <<>>
        /\ TiebreakIdle

NextScenario == Analytical \/ BruteBegin \/ BruteOutcomeStep \/ BruteFinish

SpecScenario == InitScenario /\ [][NextScenario]_vars

---------------------------------------------------------------------------
(* run_simulation_task from the task row that start_simulation created to  *)
(* "completed" or "failed".                                                *)

\* A request asks for 1..MaxTaskTrials trials (the schema's range is
\* 100..100000; quick_mode is off).
MaxTaskTrials == 2

\* What the adapter returns for snapshot s in week `week`.
TaskLeague(s, week, spots) ==
    [teams |-> s.teams, h2h |-> s.h2h, remaining |-> s.remaining,
     current_week |-> week, playoff_spots |-> spots]

\* Four teams after the first week of the round robin, with no or one week
\* left to play.
ValidTaskLeagues ==
    {TaskLeague(Snapshot(4, layout, 1, rem, home_won), 2, 2) :
        layout \in Layouts(4), rem \in 0..1, home_won \in [1..2 -> BOOLEAN]}

\* espn.py 190-225, sleeper.py 246-322: fetch_schedule does not look the
\* team ids of a matchup up in the standings, so a matchup can name a team
\* the standings do not hold. Here the away team of matchup k is such a
\* team.
WithUnknown(league, k) ==
    [league EXCEPT !.remaining[k].away_team_id = Cardinality(DOMAIN league.teams) + 1]

\* Snapshots with an unknown team: in a game of the current week, in a
\* game of a later week, and in the first of twelve remaining games.
InvalidTaskLeagues ==
    LET all_home == [k \in 1..2 |-> TRUE]
        none == [i \in 1..4 |-> 0]
        two_weeks == TaskLeague(Snapshot(4, none, 1, 2, all_home), 2, 2)
        long == SeasonSnapshot(none, 0, BruteForceLimit \div 2 + 1,
                               [p \in Pairs(1..4) |-> TRUE], 2)
    IN {WithUnknown(two_weeks, 2), WithUnknown(two_weeks, 3), WithUnknown(long, 1)}

TaskLeagues == ValidTaskLeagues \cup InvalidTaskLeagues

\* The league of the runs that are about the request and the provider.
SmallLeague ==
    TaskLeague(Snapshot(4, [i \in 1..4 |-> 0], 1, 0, [k \in 1..2 |-> TRUE]), 2, 2)

\* The request, and what the credential store and the adapter will answer.
\* start_simulation (lines 237-326) has checked the sport, the user and
\* the credential before it created the task; the credential can be gone
\* by the time the task runs, and every fetch, the cache write and the last
\* commit can fail.
TaskCases ==
    {[request |-> ValidRequest(n), provider |-> Provider(league)] :
        n \in 1..MaxTaskTrials, league \in TaskLeagues}
    \cup {[request |-> [sport_valid |-> TRUE, platform |-> "yahoo", user_id |-> 1,
                        n_simulations |-> 1],
           provider |-> [credential |-> cred, fails |-> "none", league |-> SmallLeague]] :
            cred \in BOOLEAN}
    \cup {[request |-> ValidRequest(1),
           provider |-> [credential |-> FALSE, fails |-> f, league |-> SmallLeague]] :
            f \in {"standings", "schedule", "h2h", "cache", "commit"}}

\* repositories.py 280-297: the task row is created "pending"; line 335:
\* run_simulation_task is scheduled with it.
InitTask ==
    \E c \in TaskCases :
        /\ request = c.request
        /\ provider = c.provider
        /\ task = [status |-> "pending", progress |-> 0]
        /\ pc = "prepare"
        /\ teams = <<>>
        /\ remaining = <<>>
        /\ h2h = <<>>
        /\ current_week = 0
        /\ playoff_spots = 0
        /\ magic_numbers = <<>>
        /\ brute = <<>>
        /\ clinch_scenarios = <<>>
        /\ elimination_scenarios = <<>>
        /\ team_results = <<>>
        /\ num_divisions = 0
        /\ n_simulations = 0
        /\ progress_callback = FALSE
        /\ results = <<>>
        /\ sim_idx = 0
        /\ sim_teams = <<>>
        /\ shared = FALSE
        /\ sim_h2h = <<>>
        /\ game_idx = 0
        /\ division_winners = <<>>
        /\ playoff_teams = <<>>
        /\ progress_calls = <<>>
        /\ disfavor_id = None
        /\ favor_id = None
        /\ rng = Unseeded
        /\ run_no = 1
        /\ first_results = <<>>
        /\ TiebreakIdle

NextTask ==
    \/ TaskPrepare
    \/ FetchStandings
    \/ FetchSchedule
    \/ FetchHeadToHead
    \/ CalculateMagicNumbers
    \/ Analytical
    \/ BruteBegin
    \/ BruteOutcomeStep
    \/ BruteRaises
    \/ BruteFinish
    \/ Next
    \/ SimulateRaises
    \/ BuildResponse
    \/ CompleteTask
    \/ CommitTask

SpecTask == InitTask /\ [][NextTask]_vars


\* The scenario step of the task has returned its two lists.
ScenariosReturned == pc = "start" /\ task.status = "running"

\* What the analytical path returns for the snapshot of the task.
AnalyticalLists ==
    generate_clinch_elimination_scenarios(teams, remaining, magic_numbers,
                                          current_week, playoff_spots)

\* C12: when exactly 10 matchups remain the brute-force path is the one
\* that runs, and every clinch string and every elimination string the
\* analytical path produces for the snapshot is in the corresponding list
\* the brute-force path returned.
C12_BruteForceCoversAnalytical ==
    (ScenariosReturned /\ Len(remaining) = BruteForceLimit)
        => /\ brute # <<>>
           /\ Range(AnalyticalLists.clinch) \subseteq Range(clinch_scenarios)
           /\ Range(AnalyticalLists.elimination) \subseteq Range(elimination_scenarios)

\* The brute-force path has run over the current week of the snapshot.
BruteForceReturned == ScenariosReturned /\ brute # <<>>

\* Team t meets team o in one of the current-week matchups.
Plays(matchups, t, o) ==
    \E g \in 1..Len(matchups) :
        <<matchups[g].home_team_id, matchups[g].away_team_id>> \in {<<t, o>>, <<o, t>>}

\* Team t wins (won = TRUE) or loses its current-week game in the vector
\* of winners w.
Result(matchups, w, t, won) ==
    \E g \in 1..Len(matchups) :
        /\ t \in {matchups[g].home_team_id, matchups[g].away_team_id}
        /\ (w[g] = t) <=> won

ClinchExample == ScenariosReturned /\ provider.league \in ClinchLeagues

\* The lists the task got, followed by the lists of the analytical path.
ListedClinch == Range(clinch_scenarios) \cup Range(AnalyticalLists.clinch)
ListedElimination == Range(elimination_scenarios) \cup Range(AnalyticalLists.elimination)

\* C19 as stated: in the 4-team league (2 spots) with A 9-2 and one game
\* left against D, B and C 7-4 with one game left, magic_playoffs[A] is 1
\* and the list holds "A clinches playoff spot with a WIN vs D".
C19_AClinchesWithAWin ==
    ClinchExample
        => /\ magic_numbers[1].magic_playoffs = 1
           /\ Scenario(1, ClinchPlayoffs, 4) \in Range(clinch_scenarios)

\* C19 amended: in that league A has already clinched (B and C can reach 8
\* wins at most), so magic_playoffs[A] is None and neither path lists a
\* playoff clinch for A; the teams with magic number 1 are B and C, and
\* the list holds their strings.
C19_AAlreadyClinched ==
    ClinchExample
        => /\ magic_numbers[1].magic_playoffs = None
           /\ \A o \in DOMAIN teams : Scenario(1, ClinchPlayoffs, o) \notin ListedClinch
           /\ magic_numbers[2].magic_playoffs = 1
           /\ magic_numbers[3].magic_playoffs = 1
           /\ Scenario(2, ClinchPlayoffs, 3) \in Range(clinch_scenarios)
           /\ Scenario(3, ClinchPlayoffs, 2) \in Range(clinch_scenarios)

\* The brute-force path has run over the week of A against D and found A
\* secured in every vector.
C19_Witness ==
    /\ ClinchExample
    /\ BruteForceReturned
    /\ Plays(CurrentWeekMatchups(remaining, current_week), 1, 4)
    /\ brute.clinch_all[1]
    /\ Scenario(2, ClinchPlayoffs, 3) \in Range(clinch_scenarios)

\* The snapshot of the task is the "elimination" league: D = 4 is 1-10
\* and meets A = 1 (10-1), B = 2 and C = 3 are 6-5 with two games each.
EliminationExample == ScenariosReturned /\ provider.league \in EliminationLeagues

\* C20 as stated: in the 4-team league (2 spots) with D 1-10 and one game
\* left against A (10-1), B and C 6-5 with two games each,
\* magic_playoffs[D] is None and the elimination list holds "D eliminated
\* from playoffs if: LOSS to A".
C20_DEliminatedWithALoss ==
    EliminationExample
        => /\ magic_numbers[4].magic_playoffs = None
           /\ Scenario(4, EliminatedPlayoffs, 1) \in Range(elimination_scenarios)

\* C20 amended: magic_playoffs[D] is None, and D is already eliminated (it
\* can reach 2 wins, B and C have 6), so neither path lists a playoff
\* elimination for D.
C20_DAlreadyEliminated ==
    EliminationExample
        => /\ magic_numbers[4].magic_playoffs = None
           /\ \A o \in DOMAIN teams :
                Scenario(4, EliminatedPlayoffs, o) \notin ListedElimination

\* The brute-force path has run over the week of D against A and found D
\* blocked in every vector.
C20_Witness ==
    /\ EliminationExample
    /\ BruteForceReturned
    /\ Plays(CurrentWeekMatchups(remaining, current_week), 4, 1)
    /\ brute.elim_all[4]

\* C15: the status of a task follows pending -> running -> {completed,
\* failed}: every step that makes the task completed or failed starts from
\* a task that is running, wherever run_simulation_task raises.
C15_TerminalOnlyFromRunning ==
    [][(task'.status # task.status /\ task'.status \in {"completed", "failed"})
           => task.status = "running"]_vars

\* C16: when a remaining matchup names a team id that is not in teams, no
\* core component returns a result (calculate_magic_numbers leaves no magic
\* numbers, the scenario generators leave no lists and the simulation
\* leaves no tallies), and the task ends failed.
C16_UnknownTeamRaises ==
    UnknownIds(teams, remaining) # {}
        => /\ magic_numbers = <<>>
           /\ pc \notin {"scenarios", "brute_loop", "start", "respond", "commit"}
           /\ pc = "finished" => task.status = "failed"

\* The four categories of a team result.
Categories == {"division", "playoffs", "first_seed", "last_place"}

\* The tally of team i in a category, and the probability reported for it.
CountOf(i, cat) ==
    CASE cat = "division" -> results[i].division_wins
      [] cat = "playoffs" -> results[i].playoff_appearances
      [] cat = "first_seed" -> results[i].first_seed
      [] cat = "last_place" -> results[i].last_place

ReportedOf(i, cat) ==
    CASE cat = "division" -> team_results[i].division_pct
      [] cat = "playoffs" -> team_results[i].playoff_pct
      [] cat = "first_seed" -> team_results[i].first_seed_pct
      [] cat = "last_place" -> team_results[i].last_place_pct

\* The lists of the teams in a category that the final standings of
\* outcome vector idx of all remaining matchups can give, over every coin
\* flip.
CategoryLists(cat, idx) ==
    LET a == apply_outcome(teams, <<>>, remaining, Winners(remaining, idx))
    IN IF cat = "last_place"
       THEN {l.credited : l \in LastPlaceStep(a.sim_teams, h2h, a.sim_h2h, Unseeded)}
       ELSE {CASE cat = "division" -> d.division_winners
               [] cat = "playoffs" -> d.playoff_teams
               [] cat = "first_seed" -> FirstSeed(d.playoff_teams) :
                d \in determine_playoffs(a.sim_teams, h2h, a.sim_h2h,
                                         playoff_spots, None, None, Unseeded)}

\* Team i is mathematically certain of the category: it is in it whatever
\* the remaining games and the coin flips give.
Certain(i, cat) ==
    \A idx \in 0..(total_outcomes(remaining) - 1) :
        \A l \in CategoryLists(cat, idx) : i \in Range(l)

\* The response of the task has been built.
ResponseBuilt == pc = "respond"

\* C14: in the result of run_simulation_task, in each of the four
\* categories, a team that is not mathematically certain of the outcome and
\* whose frequency count / N is at least 0.9995 is reported at 0.999, so a
\* reported probability of 1.0 appears only for a team that is certain.
C14_OneOnlyWhenCertain ==
    ResponseBuilt
        => \A i \in DOMAIN teams : \A cat \in Categories :
              /\ (~Certain(i, cat) /\ CountOf(i, cat) * 10000 >= 9995 * n_simulations)
                     => ReportedOf(i, cat) = <<999, 1000>>
              /\ ReportedOf(i, cat)[1] = ReportedOf(i, cat)[2] => Certain(i, cat)

\* The snapshot has been fetched whole (progress 35 and later).
SnapshotFetched == task.progress >= 35

\* C17: simulate_season, apply_outcome, determine_playoffs,
\* resolve_tiebreaker, calculate_magic_numbers and both scenario generators
\* leave their inputs unchanged: whatever has run since the snapshot was
\* fetched, the caller's Team records, the remaining matchups and the
\* historical H2H table are what the adapter returned.
C17_InputsUnchanged ==
    SnapshotFetched
        => /\ teams = provider.league.teams
           /\ remaining = provider.league.remaining
           /\ h2h = provider.league.h2h

\* The brute-force path has applied outcomes and simulate_season has
\* returned after a trial whose games changed the records of its copies.
C17_Witness ==
    /\ ResponseBuilt
    /\ brute # <<>>
    /\ brute.outcome_idx > 0
    /\ remaining # <<>>
    /\ sim_teams # teams
    /\ magic_numbers # <<>>

\* simulate_season has returned for a snapshot with no matchup left.
EmptyRemainingDone == remaining = <<>> /\ pc = "done"

NoTies ==
    \A i, j \in DOMAIN teams :
        i # j => ~PctEq(win_pct(teams[i]), win_pct(teams[j]))

DivisionGamesOf(played, id) == {k \in GamesOf(played, id) : played[k].is_division_game}

\* The records `after` are the records `before` with one win and one loss
\* per matchup of `played`, given to its two teams, and simh holds no tie.
OneWinOneLoss(before, after, simh, played) ==
    /\ DOMAIN after = DOMAIN before
    /\ \A i \in DOMAIN before :
          /\ after[i].ties = before[i].ties
          /\ after[i].division_ties = before[i].division_ties
          /\ after[i].wins >= before[i].wins
          /\ after[i].losses >= before[i].losses
          /\ after[i].division_wins >= before[i].division_wins
          /\ after[i].division_losses >= before[i].division_losses
          /\ after[i].wins + after[i].losses + after[i].ties
                = before[i].wins + before[i].losses + before[i].ties
                    + Cardinality(GamesOf(played, i))
          /\ after[i].division_wins + after[i].division_losses
                = before[i].division_wins + before[i].division_losses
                    + Cardinality(DivisionGamesOf(played, i))
    /\ SumOver([i \in DOMAIN before |-> after[i].wins - before[i].wins], DOMAIN before)
          = Len(played)
    /\ SumOver([i \in DOMAIN before |-> after[i].division_wins - before[i].division_wins],
               DOMAIN before)
          = Cardinality({k \in 1..Len(played) : played[k].is_division_game})
    /\ \A key \in DOMAIN simh : simh[key][3] = 0

\* C24: in every trial of simulate_season and every call of apply_outcome
\* each matchup adds one win to one of its two teams and one loss to the
\* other (and one division win and loss iff it is a division game), no
\* ties change and the simulated H2H table holds no tie: after every game
\* of a trial, and for every assignment of winners given to apply_outcome,
\* W + L + T of a team is the snapshot's plus its matchups played.
C24_OneWinOneLossPerMatchup ==
    /\ pc \in {"games", "tally"}
          => OneWinOneLoss(teams, sim_teams, sim_h2h,
                           SubSeq(remaining, 1, game_idx - 1))
    /\ pc = "start"
          => \A outcomes \in OutcomeVectors(remaining) :
                OneWinOneLoss(teams,
                              apply_outcome(teams, <<>>, remaining, outcomes).sim_teams,
                              apply_outcome(teams, <<>>, remaining, outcomes).sim_h2h,
                              remaining)

\* A trial has played two division games and some team has won one.
C24_Witness ==
    /\ pc = "tally"
    /\ Len(remaining) >= 2
    /\ \A k \in 1..Len(remaining) : remaining[k].is_division_game
    /\ \E i \in DOMAIN teams :
          /\ sim_teams[i].division_wins = teams[i].division_wins + 1
          /\ sim_teams[i].wins = teams[i].wins + 1

---------------------------------------------------------------------------
(* The head-to-head tables: an adapter's fetch_head_to_head over the       *)
(* schedule the provider returns, and apply_outcome over the decided       *)
(* matchups of the same schedule.                                          *)

\* The provider's schedule holds at most MaxGames entries, among H2HTeams
\* teams.
MaxGames == 2
H2HTeams == 3

\* espn.py 248-258: a schedule entry names home, away and the winner.
ScheduleEntries ==
    {e \in [home_team_id : 1..H2HTeams, away_team_id : 1..H2HTeams,
             winner : {"HOME", "AWAY", "TIE", "UNDECIDED"}] :
        e.home_team_id # e.away_team_id}

Schedules == UNION {[1..n -> ScheduleEntries] : n \in 0..MaxGames}

\* espn.py 263-279 (sleeper.py 379-397, yahoo.py 448-464, cbs.py 330-346,
\* fantrax.py 401-414): the table after one entry of the schedule.
TrackEntry(table, e) ==
    LET home_id == e.home_team_id
        away_id == e.away_team_id
        key == <<Min2(home_id, away_id), Max2(home_id, away_id)>>
        old == H2HGet(table, key)
        new == CASE e.winner = "HOME" ->
                      IF home_id < away_id THEN <<old[1] + 1, old[2], old[3]>>
                      ELSE <<old[1], old[2] + 1, old[3]>>
                 [] e.winner = "AWAY" ->
                      IF away_id < home_id THEN <<old[1] + 1, old[2], old[3]>>
                      ELSE <<old[1], old[2] + 1, old[3]>>
                 [] OTHER -> <<old[1], old[2], old[3] + 1>>
    IN IF e.winner \notin {"HOME", "AWAY", "TIE"} THEN table
       ELSE [k \in (DOMAIN table) \cup {key} |-> IF k = key THEN new ELSE table[k]]

\* espn.py 227-282: fetch_head_to_head over the schedule, in list order.
RECURSIVE fetch_head_to_head(_, _)
fetch_head_to_head(table, schedule) ==
    IF schedule = <<>> THEN table
    ELSE fetch_head_to_head(TrackEntry(table, Head(schedule)), Tail(schedule))

\* The entries a simulation can stand for: those with a winner.
Decided(schedule) == SelectSeq(schedule, LAMBDA e : e.winner \in {"HOME", "AWAY"})

\* The matchups and the winners apply_outcome is given for them.
DecidedMatchups(schedule) ==
    [k \in 1..Len(Decided(schedule)) |->
        Matchup(Decided(schedule)[k].home_team_id, Decided(schedule)[k].away_team_id,
                1, FALSE)]

DecidedWinners(schedule) ==
    [k \in 1..Len(Decided(schedule)) |->
        IF Decided(schedule)[k].winner = "HOME" THEN Decided(schedule)[k].home_team_id
        ELSE Decided(schedule)[k].away_team_id]

InitH2H ==
    \E schedule \in Schedules :
        /\ provider = [schedule |-> schedule]
        /\ teams = [i \in 1..H2HTeams |-> Team(i, 0, 0, 0, 0, 0, 0, 0)]
        /\ h2h = <<>>
        /\ pc = "h2h_fetch"
        /\ request = <<>>
        /\ task = [status |-> "none", progress |-> 0]
        /\ current_week = 0
        /\ magic_numbers = <<>>
        /\ brute = <<>>
        /\ clinch_scenarios = <<>>
        /\ elimination_scenarios = <<>>
        /\ team_results = <<>>
        /\ remaining = <<>>
        /\ playoff_spots = 0
        /\ num_divisions = 0
        /\ n_simulations = 0
        /\ progress_callback = FALSE
        /\ results = <<>>
        /\ sim_idx = 0
        /\ sim_teams = <<>>
        /\ shared = FALSE
        /\ sim_h2h = <<>>
        /\ game_idx = 0
        /\ division_winners = <<>>
        /\ playoff_teams = <<>>
        /\ progress_calls = <<>>
        /\ disfavor_id = None
        /\ favor_id = None
        /\ rng = Unseeded
        /\ run_no = 1
        /\ first_results = <<>>
        /\ TiebreakIdle

\* What the two calls leave alone.
H2H_Unchanged ==
    /\ Task_Unchanged
    /\ UNCHANGED <<task, teams, playoff_spots, num_divisions, n_simulations,
                   progress_callback, results, sim_idx, shared, game_idx,
                   division_winners, playoff_teams, progress_calls, disfavor_id,
                   favor_id, tied_teams, ranked, reranked, flips, rng, run_no,
                   first_results>>

\* The adapter's fetch_head_to_head returns the historical table.
FetchTable ==
    /\ pc = "h2h_fetch"
    /\ h2h' = fetch_head_to_head(<<>>, provider.schedule)
    /\ pc' = "h2h_apply"
    /\ UNCHANGED <<remaining, sim_teams, sim_h2h>>
    /\ H2H_Unchanged

\* engine.py 34-55: apply_outcome on the decided matchups and their winners.
ApplyDecided ==
    /\ pc = "h2h_apply"
    /\ remaining' = DecidedMatchups(provider.schedule)
    /\ LET a == apply_outcome(copy(teams).teams, <<>>, DecidedMatchups(provider.schedule),
                              DecidedWinners(provider.schedule))
       IN /\ sim_teams' = a.sim_teams
          /\ sim_h2h' = a.sim_h2h
    /\ pc' = "h2h_done"
    /\ UNCHANGED h2h
    /\ H2H_Unchanged

NextH2H == FetchTable \/ ApplyDecided

SpecH2H == InitH2H /\ [][NextH2H]_vars

\* The entries of the schedule between a and b with the given results.
EntriesBetween(schedule, a, b, results_wanted) ==
    {k \in 1..Len(schedule) :
        /\ {schedule[k].home_team_id, schedule[k].away_team_id} = {a, b}
        /\ schedule[k].winner \in results_wanted}

\* The entries between a and b that a won.
EntriesWonBy(schedule, a, b) ==
    {k \in EntriesBetween(schedule, a, b, {"HOME", "AWAY"}) :
        \/ schedule[k].winner = "HOME" /\ schedule[k].home_team_id = a
        \/ schedule[k].winner = "AWAY" /\ schedule[k].away_team_id = a}

\* The table holds, under keys (a, b) with a < b only, for every pair with
\* a counted entry the wins of the lower id, the wins of the higher id and
\* the ties, every entry counted once.
CountsEachGameOnce(table, schedule, counted) ==
    /\ \A key \in DOMAIN table : key[1] < key[2]
    /\ DOMAIN table =
          {<<a, b>> \in (1..H2HTeams) \X (1..H2HTeams) :
              a < b /\ EntriesBetween(schedule, a, b, counted) # {}}
    /\ \A key \in DOMAIN table :
          table[key] = <<Cardinality(EntriesWonBy(schedule, key[1], key[2])),
                         Cardinality(EntriesWonBy(schedule, key[2], key[1])),
                         Cardinality(EntriesBetween(schedule, key[1], key[2],
                                                    counted \cap {"TIE"}))>>

\* C25: every head-to-head table the code builds has only keys (a, b) with
\* a < b, and under each key the games won by the lower id, the games won
\* by the higher id and the ties, each game between the pair counted once
\* whichever team is listed first: the adapter's table over the finished
\* entries, the simulated table over the decided matchups.
C25_TablesCountEachGameOnce ==
    /\ pc \in {"h2h_apply", "h2h_done"}
          => CountsEachGameOnce(h2h, provider.schedule, {"HOME", "AWAY", "TIE"})
    /\ pc = "h2h_done"
          => CountsEachGameOnce(sim_h2h, provider.schedule, {"HOME", "AWAY"})

\* Teams 1 and 2 met twice, listed in either order, and the home team won
\* both times.
C25_Witness ==
    /\ pc = "h2h_done"
    /\ Len(provider.schedule) = 2
    /\ provider.schedule[1] = [home_team_id |-> 2, away_team_id |-> 1, winner |-> "HOME"]
    /\ provider.schedule[2] = [home_team_id |-> 1, away_team_id |-> 2, winner |-> "HOME"]
    /\ h2h = sim_h2h
    /\ h2h[<<1, 2>>] = <<1, 1, 0>>

---------------------------------------------------------------------------
(* The range of the magic numbers.                                         *)

\* A reported magic number is None or a count of the team's own games.
InRange(v, id) == v = None \/ v \in 1..games_remaining(remaining, id)

\* C26: every magic number that calculate_magic_numbers returns is None or
\* an integer from 1 to games_remaining[team]: a need of 0 is reported as
\* None, a need above the games left is reported as the games left or as
\* None, and magic_last when present lies in the same range.
C26_MagicNumbersInRange ==
    magic_numbers # <<>>
        => \A id \in DOMAIN magic_numbers :
              /\ InRange(magic_numbers[id].magic_division, id)
              /\ InRange(magic_numbers[id].magic_playoffs, id)
              /\ InRange(magic_numbers[id].magic_first_seed, id)
              /\ InRange(magic_numbers[id].magic_last, id)

\* The snapshot has a team that needs no win (reported None) and a team
\* whose reported need is all the games it has left.
C26_Witness ==
    /\ magic_numbers # <<>>
    /\ \E id \in DOMAIN magic_numbers :
          /\ NeedsNoWin(teams, remaining, h2h, playoff_spots, id)
          /\ magic_numbers[id].magic_playoffs = None
    /\ \E id \in DOMAIN magic_numbers :
          /\ magic_numbers[id].magic_playoffs = games_remaining(remaining, id)
          /\ magic_numbers[id].magic_playoffs >= 1
---------------------------------------------------------------------------
(* magic_last and the last place of a trial.                               *)

\* magic_numbers.py 257-258: twice the gap of the last-place computation.
LastGap2(id) ==
    LET least == CHOOSE x \in {effective_wins(teams[o]) : o \in DOMAIN teams \ {id}} :
                     \A o \in DOMAIN teams \ {id} : x <= effective_wins(teams[o])
    IN effective_wins(teams[id]) + 2 * games_remaining(remaining, id) - least

\* magic_last is None because the losses computed exceed the games left.
LastImpossible(id) ==
    /\ DOMAIN teams # {id}
    /\ LastGap2(id) >= 0
    /\ magic_last(teams, remaining, h2h, id) = None

\* C22: a team whose magic_last is None because the computed losses exceed
\* games_remaining[team] (gap >= 0) is never the team credited with last
\* place by a trial of simulate_season, whatever the winners and the coin
\* flips.
C22_ImpossibleLastNeverLast ==
    results # <<>>
        => \A id \in DOMAIN teams :
              LastImpossible(id) => results[id].last_place = 0

---------------------------------------------------------------------------
(* owns_tiebreaker against the tiebreaker of the finished season.          *)

\* Every remaining matchup of the trial has been played.
SeasonPlayed == pc = "tally"

\* a and b, and no third team, share a win_pct in the trial's standings.
TwoTeamTie(a, b) ==
    /\ a # b
    /\ PctEq(win_pct(sim_teams[a]), win_pct(sim_teams[b]))
    /\ \A c \in DOMAIN sim_teams \ {a, b} :
          ~PctEq(win_pct(sim_teams[c]), win_pct(sim_teams[a]))

\* C27: if owns_tiebreaker(a, b) is "win" on the snapshot, then after every
\* assignment of winners to the remaining matchups that leaves a and b tied
\* on win_pct as a group of two, resolve_tiebreaker ranks a above b, in
\* either input order and for every coin flip.
C27_OwnedTiebreakerHolds ==
    SeasonPlayed
        => \A a, b \in DOMAIN teams :
              (/\ TwoTeamTie(a, b)
               /\ owns_tiebreaker(teams, remaining, h2h, a, b) = "win")
                  => \A tied \in {<<a, b>>, <<b, a>>} :
                        \A o \in resolve_tiebreaker(tied, sim_teams, h2h, sim_h2h,
                                                    None, None, rng) :
                            o.order[1] = a

---------------------------------------------------------------------------
(* The team that is alone best by head-to-head in the tied group.          *)

\* <<wins, losses, ties>> of team t against team o in the combined table.
CombinedRecord(t, o) ==
    LET a == H2HGet(h2h, <<Min2(t, o), Max2(t, o)>>)
        b == H2HGet(sim_h2h, <<Min2(t, o), Max2(t, o)>>)
    IN IF t < o THEN <<a[1] + b[1], a[2] + b[2], a[3] + b[3]>>
       ELSE <<a[2] + b[2], a[1] + b[1], a[3] + b[3]>>

\* The combined games two teams of the group played against each other.
PairTotal(t, o) == CombinedRecord(t, o)[1] + CombinedRecord(t, o)[2] + CombinedRecord(t, o)[3]

\* wins + 0.5 * ties of t against the rest of the group, doubled.
GroupPoints(t) ==
    SumOver([o \in Range(tied_teams) \ {t} |->
                2 * CombinedRecord(t, o)[1] + CombinedRecord(t, o)[3]],
            Range(tied_teams) \ {t})

\* The games of t against the rest of the group.
GroupGames(t) ==
    SumOver([o \in Range(tied_teams) \ {t} |-> PairTotal(t, o)],
            Range(tied_teams) \ {t})

\* Every pair of the group has played the same number of combined games.
EqualPairTotals ==
    \A p, q \in Pairs(Range(tied_teams)) : PairTotal(p[1], p[2]) = PairTotal(q[1], q[2])

\* t has the strictly highest combined H2H percentage of the group.
AloneBestByH2H(t) ==
    /\ t \in Range(tied_teams)
    /\ GroupGames(t) > 0
    /\ \A o \in Range(tied_teams) \ {t} :
          GroupPoints(t) * GroupGames(o) > GroupPoints(o) * GroupGames(t)

\* C28: when every pair of the tied group has the same total of combined
\* H2H games and one team alone has the highest combined H2H percentage
\* within the group, resolve_tiebreaker ranks that team first, whatever
\* favor_id and disfavor_id are.
C28_H2HBestRankedFirst ==
    (pc \in {"tb_ranked", "tb_reranked"} /\ Len(tied_teams) >= 2 /\ EqualPairTotals)
        => \A t \in Range(tied_teams) : AloneBestByH2H(t) => ranked[1] = t

\* A group of three with one game per pair whose best team by H2H is the
\* disfavoured one, or is ranked ahead of the favoured one.
C28_Witness ==
    /\ pc = "tb_ranked"
    /\ Len(tied_teams) = 3
    /\ EqualPairTotals
    /\ \E t \in Range(tied_teams) :
          /\ AloneBestByH2H(t)
          /\ ranked[1] = t
          /\ disfavor_id = t \/ favor_id \in Range(tied_teams) \ {t}

---------------------------------------------------------------------------
(* The last place of a trial against its playoff list.                     *)

\* The tallies of one more trial have been recorded by this step.
TrialRecorded == results # <<>> /\ sim_idx' = sim_idx + 1

\* C29: in every trial of simulate_season on a league with more teams than
\* playoff_spots, the team credited with last place is not one of that
\* trial's playoff qualifiers, also when teams are tied and the playoff
\* list and the last place come from separate tiebreaker calls.
C29_LastPlaceMissesPlayoffs ==
    [][(TrialRecorded /\ Cardinality(DOMAIN teams) > playoff_spots)
          => \A i \in DOMAIN results :
                ~(/\ results'[i].last_place = results[i].last_place + 1
                  /\ results'[i].playoff_appearances
                        = results[i].playoff_appearances + 1)]_vars

---------------------------------------------------------------------------
(* The brute-force strings against the full completions of the season.     *)

\* Team t wins (won = TRUE) or loses its game of the current week in the
\* vector w of winners of all remaining matchups.
CurrentWeekResult(w, t, won) ==
    \E g \in 1..Len(remaining) :
        /\ remaining[g].week = current_week
        /\ t \in {remaining[g].home_team_id, remaining[g].away_team_id}
        /\ (w[g] = t) <=> won

\* The playoff lists determine_playoffs can return after the winners w of
\* all remaining matchups, with the given bias.
PlayoffListsAfter(w, dis, fav) ==
    LET a == apply_outcome(teams, <<>>, remaining, w)
    IN {Range(d.playoff_teams) :
           d \in determine_playoffs(a.sim_teams, h2h, a.sim_h2h, playoff_spots,
                                    dis, fav, Unseeded)}

\* C23: a team that brute_force_clinch_elimination lists as clinching a
\* playoff spot with a WIN is in the playoff list after every assignment of
\* winners to all remaining matchups in which it wins its current-week
\* game, even when it loses every coin flip; a team listed as eliminated
\* with a LOSS misses the playoffs after every assignment in which it loses
\* that game, even when it wins every coin flip.
C23_BruteForceStringsHoldToTheEnd ==
    BruteForceReturned =>
        \A t \in DOMAIN teams, o \in DOMAIN teams :
            /\ Scenario(t, ClinchPlayoffs, o) \in Range(clinch_scenarios)
                  => \A w \in OutcomeVectors(remaining) :
                        CurrentWeekResult(w, t, TRUE)
                            => \A list \in PlayoffListsAfter(w, t, None) : t \in list
            /\ Scenario(t, EliminatedPlayoffs, o) \in Range(elimination_scenarios)
                  => \A w \in OutcomeVectors(remaining) :
                        CurrentWeekResult(w, t, FALSE)
                            => \A list \in PlayoffListsAfter(w, None, t) : t \notin list

---------------------------------------------------------------------------
(* The terminal states of a task.                                          *)

\* C30: completed and failed are terminal: once run_simulation_task has
\* marked the task completed (progress 100) or failed, no later step
\* changes its status, wherever a later step (cache write, commit) raises;
\* and the progress of the task never decreases.
C30_TerminalStatesStay ==
    [][/\ task.status \in {"completed", "failed"} => task'.status = task.status
       /\ task'.progress >= task.progress]_vars

---------------------------------------------------------------------------
(* platforms/yahoo.py and platforms/cbs.py: _ensure_valid_token.  The      *)
(* adapter instance is the record `provider`: its credential, its          *)
(* _token_refreshed flag, the clock, and what its last call gave.  Tokens  *)
(* are numbered: 0 is the stored one, n the one issued by the n-th call of *)
(* the refresh primitive.  Times are seconds.                              *)

\* The margin of lines 91 (yahoo.py) and 75 (cbs.py), in seconds.
RefreshMargin == 300
\* The clock advances at most MaxTicks times.
MaxTicks == 2
\* At most MaxCalls calls of _ensure_valid_token on one adapter.
MaxCalls == 3

\* expires_at of the stored credential, in seconds after the clock's start.
StoredExpiry == {0 - 1, 0, 299, 300, 301, 900}
\* expires_in of the token endpoint's answer (yahoo_oauth.py 175-176).
ExpiresIn == {1, 300, 3600}
\* The clock advances by one of these between two calls.
ClockSteps == {1, 299, 300}

\* db/models.py 108-139: a YahooCredential (CBS: 142-173); `present` is
\* FALSE for the adapter built with credential=None.
Credential(access_token, refresh_token, expires_at) ==
    [present |-> TRUE, access_token |-> access_token,
     refresh_token |-> refresh_token, expires_at |-> expires_at]

NoCredential ==
    [present |-> FALSE, access_token |-> None, refresh_token |-> None, expires_at |-> 0]

\* db/models.py 136-139: YahooCredential.is_expired (CBS: 170-173).
is_expired(credential, now) == now > credential.expires_at

\* A mutant: a token with exactly the margin left is refreshed as well.
TokenDueInclusive(credential, now) ==
    is_expired(credential, now) \/ credential.expires_at - now <= RefreshMargin

\* Line 91: expired, or expiring within the margin.
TokenDue(credential, now) ==
    is_expired(credential, now) \/ credential.expires_at - now < RefreshMargin

\* core/yahoo_oauth.py 127-185: what refresh_access_token can give for the
\* n-th call: an exception, or new tokens; the endpoint may leave out the
\* refresh token, which then stays the one sent.
refresh_access_token(refresh_token, now, n) ==
    {[ok |-> FALSE]}
    \cup {[ok |-> TRUE, access_token |-> n, refresh_token |-> rt,
           expires_at |-> now + e] : rt \in {refresh_token, n}, e \in ExpiresIn}

Returned(token) == [kind |-> "token", token |-> token]
Raised(err) == [kind |-> err, token |-> None]

\* Lines 75-106: the adapter after one call of _ensure_valid_token, for
\* every answer of the refresh primitive.
ensure_valid_token(a) ==
    LET called == [a EXCEPT !.calls = @ + 1]
    IN IF ~a.credential.present
       THEN {[called EXCEPT !.result = Raised("PlatformError")]}
       ELSE IF ~TokenDue(a.credential, a.now)
       THEN {[called EXCEPT !.result = Returned(a.credential.access_token)]}
       ELSE IF a.token_refreshed
       THEN {[called EXCEPT !.result = Raised("TokenExpired")]}
       ELSE {IF new_tokens.ok
             THEN [called EXCEPT
                      !.credential = Credential(new_tokens.access_token,
                                                new_tokens.refresh_token,
                                                new_tokens.expires_at),
                      !.token_refreshed = TRUE,
                      !.refresh_calls = @ + 1,
                      !.result = Returned(new_tokens.access_token)]
             ELSE [called EXCEPT !.refresh_calls = @ + 1,
                                 !.result = Raised("OAuthError")]
             : new_tokens \in refresh_access_token(a.credential.refresh_token, a.now,
                                                   a.refresh_calls + 1)}

\* Lines 34-52: a new adapter with the credential the caller loaded.
Adapters ==
    {[credential |-> c, token_refreshed |-> FALSE, now |-> 0, ticks |-> 0, calls |-> 0,
      refresh_calls |-> 0, result |-> [kind |-> "none", token |-> None]] :
        c \in {NoCredential} \cup {Credential(0, 0, e) : e \in StoredExpiry}}

InitToken ==
    /\ provider \in Adapters
    /\ pc = "token"
    /\ teams = <<>>
    /\ h2h = <<>>
    /\ request = <<>>
    /\ task = [status |-> "none", progress |-> 0]
    /\ current_week = 0
    /\ magic_numbers = <<>>
    /\ brute = <<>>
    /\ clinch_scenarios = <<>>
    /\ elimination_scenarios = <<>>
    /\ team_results = <<>>
    /\ remaining = <<>>
    /\ playoff_spots = 0
    /\ num_divisions = 0
    /\ n_simulations = 0
    /\ progress_callback = FALSE
    /\ results = <<>>
    /\ sim_idx = 0
    /\ sim_teams = <<>>
    /\ shared = FALSE
    /\ sim_h2h = <<>>
    /\ game_idx = 0
    /\ division_winners = <<>>
    /\ playoff_teams = <<>>
    /\ progress_calls = <<>>
    /\ disfavor_id = None
    /\ favor_id = None
    /\ rng = Unseeded
    /\ run_no = 1
    /\ first_results = <<>>
    /\ TiebreakIdle

\* Everything but the adapter.
Token_Unchanged ==
    UNCHANGED <<teams, remaining, h2h, playoff_spots, num_divisions, n_simulations,
                progress_callback, pc, results, sim_idx, sim_teams, shared, sim_h2h,
                game_idx, division_winners, playoff_teams, progress_calls,
                disfavor_id, favor_id, tied_teams, ranked, reranked, flips,
                rng, run_no, first_results, request, task,
                current_week, magic_numbers, brute, clinch_scenarios,
                elimination_scenarios, team_results>>

\* _fetch_api (yahoo.py 123, cbs.py 108) calls _ensure_valid_token.
EnsureValidToken ==
    /\ pc = "token"
    /\ provider.calls < MaxCalls
    /\ provider' \in ensure_valid_token(provider)
    /\ Token_Unchanged

\* Time passes between two calls.
ClockAdvances ==
    /\ pc = "token"
    /\ \E d \in ClockSteps :
         /\ provider.ticks < MaxTicks
         /\ provider' = [provider EXCEPT !.now = @ + d, !.ticks = @ + 1]
    /\ Token_Unchanged

NextToken == EnsureValidToken \/ ClockAdvances

SpecToken == InitToken /\ [][NextToken]_vars

\* This step is a call of _ensure_valid_token on an adapter with a credential.
TokenCall == provider'.calls = provider.calls + 1 /\ provider.credential.present

\* This step called the refresh primitive.
RefreshCalled == provider'.refresh_calls = provider.refresh_calls + 1

\* What a call does when `due` tells whether the token counts as expiring.
TokenContract(due) ==
    /\ RefreshCalled <=> (due /\ ~provider.token_refreshed)
    /\ (RefreshCalled /\ provider'.result.kind = "token")
          => /\ provider'.credential.access_token # provider.credential.access_token
             /\ provider'.credential.expires_at - provider.now \in ExpiresIn
             /\ provider'.token_refreshed
             /\ provider'.result.token = provider'.credential.access_token
    /\ ~due
          => /\ provider'.result = Returned(provider.credential.access_token)
             /\ provider'.credential = provider.credential
             /\ provider'.token_refreshed = provider.token_refreshed
    /\ (due /\ provider.token_refreshed)
          => /\ provider'.result = Raised("TokenExpired")
             /\ provider'.credential = provider.credential
    /\ (RefreshCalled /\ provider'.result.kind # "token")
          => /\ provider'.credential = provider.credential
             /\ provider'.token_refreshed = provider.token_refreshed

====
